---- MODULE Spec2Model ----
(***************************************************************************)
(* A model of the Product Hunt scraper (njraladdin/product-hunt-scraper):  *)
(* the orchestrator, the page loops of the resource crawlers, the comment  *)
(* pagination, the reply expanders, the review enrichment and the maker    *)
(* correlator.  Each part is a state machine of its own over its own       *)
(* variables; a specification runs one part and leaves the others idle.    *)
(***************************************************************************)
EXTENDS Integers, Sequences, FiniteSets, TLC

VARIABLES
    \* main (index.js)
    mPc, mIdx, mStep, mSaved, mStarted, mExit,
    \* the page loops of fetchReviews, fetchThreads and fetchLaunches
    pKind, pLimit, pUseGemini, pHasKey, pUp, pTotal,
    pPc, pAll, pBatch, pCursor, pTotalFetched, pHasMore,
    pRequests, pSleeps, pEnrichCalls, pEnrichFailed, pFailedAt, pResult,
    \* threadComments.fetchComments
    cLimit, cFetchAllReplies, cPc, cParsed, cCursor, cTotal,
    cRequests, cSleeps, cExpansions, cResult, cFailedAt,
    \* the reply expanders
    eKind, eReplies, eHasMore, eCursor, eRepliesCount, eInitial, ePc,
    eAll, eMore, eCur, eAttempts, eRequests, eSleeps, eFailed, eRun, eFirst,
    eStored, eExcluded, eFirstCursor, eEmptyAt,
    \* the enrichment of a page of reviews
    gReviews, gBatchSize, gHasKey, gEnhanced, gPc, gI, gCalls, gResults, gAt,
    gFailure, gSentiments, gSentAt,
    \* productMakers.fetchMakers
    kLaunchesData, kThreadsData, kMakers, kPc, kResult,
    \* the program as loaded
    lStarted, lPc, lRequests,
    \* launchComments.fetchLaunchComments under fetchLaunchesWithComments
    lcLaunches, lcLimit, lcI, lcPc, lcFirstBatch, lcParsed, lcTotal,
    lcRequests, lcSleeps, lcFailedAt, lcBefore, lcRaised, lcCalls, lcComments,
    lcExpandFailedAt, lcPostId, lcSent,
    \* threadComments.parseComments and formatComments
    nEdges, nPc, nParsed, nFormatted,
    \* forumThreads.fetchAndFormatThreadsWithComments
    tThreads, tCommentsLimit, tPc, tI, tPass, tRuns

mainVars == <<mPc, mIdx, mStep, mSaved, mStarted, mExit>>

pageVars == <<pKind, pLimit, pUseGemini, pHasKey, pUp, pTotal,
              pPc, pAll, pBatch, pCursor, pTotalFetched, pHasMore,
              pRequests, pSleeps, pEnrichCalls, pEnrichFailed, pFailedAt,
              pResult>>

commentVars == <<cLimit, cFetchAllReplies, cPc, cParsed, cCursor, cTotal,
                 cRequests, cSleeps, cExpansions, cResult, cFailedAt>>

expandVars == <<eKind, eReplies, eHasMore, eCursor, eRepliesCount, eInitial,
                ePc, eAll, eMore, eCur, eAttempts, eRequests, eSleeps,
                eFailed, eRun, eFirst, eStored, eExcluded, eFirstCursor,
                eEmptyAt>>

enrichVars == <<gReviews, gBatchSize, gHasKey, gEnhanced, gPc, gI, gCalls,
                gResults, gAt, gFailure, gSentiments, gSentAt>>

makerVars == <<kLaunchesData, kThreadsData, kMakers, kPc, kResult>>

loadVars == <<lStarted, lPc, lRequests>>

launchCommentVars == <<lcLaunches, lcLimit, lcI, lcPc, lcFirstBatch, lcParsed,
                       lcTotal, lcRequests, lcSleeps, lcFailedAt, lcBefore,
                       lcRaised, lcCalls, lcComments, lcExpandFailedAt,
                       lcPostId, lcSent>>

formatVars == <<nEdges, nPc, nParsed, nFormatted>>

threadsWithCommentsVars == <<tThreads, tCommentsLimit, tPc, tI, tPass, tRuns>>

vars == <<mainVars, pageVars, commentVars, expandVars, enrichVars, makerVars,
          loadVars, launchCommentVars, formatVars, threadsWithCommentsVars>>

\* What an action of one part leaves alone: the variables of the others.
notMain == <<pageVars, commentVars, expandVars, enrichVars, makerVars,
             loadVars, launchCommentVars, formatVars, threadsWithCommentsVars>>
notPage == <<mainVars, commentVars, expandVars, enrichVars, makerVars,
             loadVars, launchCommentVars, formatVars, threadsWithCommentsVars>>
notComments == <<mainVars, pageVars, expandVars, enrichVars, makerVars,
                 loadVars, launchCommentVars, formatVars,
                 threadsWithCommentsVars>>
notExpand == <<mainVars, pageVars, commentVars, enrichVars, makerVars,
               loadVars, launchCommentVars, formatVars,
               threadsWithCommentsVars>>
notEnrich == <<mainVars, pageVars, commentVars, expandVars, makerVars,
               loadVars, launchCommentVars, formatVars,
               threadsWithCommentsVars>>
notMakers == <<mainVars, pageVars, commentVars, expandVars, enrichVars,
               loadVars, launchCommentVars, formatVars,
               threadsWithCommentsVars>>
notLoad == <<mainVars, pageVars, commentVars, expandVars, enrichVars,
             makerVars, launchCommentVars, formatVars, threadsWithCommentsVars>>
notLaunchComments == <<mainVars, pageVars, commentVars, expandVars,
                       enrichVars, makerVars, loadVars, formatVars,
                       threadsWithCommentsVars>>
notFormat == <<mainVars, pageVars, commentVars, expandVars, enrichVars,
               makerVars, loadVars, launchCommentVars, threadsWithCommentsVars>>
notThreadsWithComments == <<mainVars, pageVars, commentVars, expandVars,
                            enrichVars, makerVars, loadVars,
                            launchCommentVars, formatVars>>

\* limit = null: no limit requested
NoLimit == 0 - 1

\* the process has not exited
NoExit == 0 - 1

Min(a, b) == IF a <= b THEN a ELSE b

\* arr.slice(0, n) for n >= 0
Slice(arr, n) == SubSeq(arr, 1, Min(n, Len(arr)))

Range(f) == {f[i] : i \in DOMAIN f}

(***************************************************************************)
(* main: the all-products orchestrator                                     *)
(***************************************************************************)

\* const productSlugs = ['bolt-new', 'lovable', 'base44'];
productSlugs == <<"bolt-new", "lovable", "base44">>

\* The iteration with the maker fetch moved in front of the other calls.
mainStepsMakersFirst ==
    <<"makers", "reviews", "threads", "launches", "details">>

\* The five awaited calls of one loop iteration, in program order, each
\* followed by utils.saveToOutputFolder(result, productSlug, dataType).
mainSteps == <<"reviews", "threads", "launches", "details", "makers">>

\* fetchReviews, fetchAndFormatThreadsWithComments and
\* fetchLaunchesWithComments rethrow from their catch blocks; fetchDetails
\* and fetchMakers catch every error themselves and return null.
StepMayRaise(step) == step \in {"reviews", "threads", "launches"}

StepMayReturnNull(step) == step \in {"details", "makers"}

MainStart ==
    /\ mPc = "loop"
    /\ mIdx = 1
    /\ mStep = 1
    /\ mSaved = {}
    /\ mStarted = {productSlugs[1]}
    /\ mExit = NoExit

\* What the catch block of main does with an error raised by a step:
\* console.error, then process.exit(1).
MainCatch == "exited"

\* The awaited call of the current step returns; its result is saved; the
\* loop goes on to the next step, the next product, or the end of main.
MainStepReturns ==
    /\ mPc = "loop"
    /\ \E isNull \in BOOLEAN :
         /\ isNull => StepMayReturnNull(mainSteps[mStep])
         /\ mSaved' = mSaved \cup
                {[product |-> productSlugs[mIdx], type |-> mainSteps[mStep],
                  isNull |-> isNull]}
    /\ IF mStep < Len(mainSteps)
         THEN /\ mStep' = mStep + 1
              /\ UNCHANGED <<mPc, mIdx, mStarted>>
         ELSE IF mIdx < Len(productSlugs)
           THEN /\ mIdx' = mIdx + 1
                /\ mStep' = 1
                /\ mStarted' = mStarted \cup {productSlugs[mIdx + 1]}
                /\ UNCHANGED mPc
           ELSE /\ mPc' = "completed"
                /\ UNCHANGED <<mIdx, mStep, mStarted>>
    /\ UNCHANGED mExit
    /\ UNCHANGED notMain

\* The awaited call of the current step raises: control leaves the for loop
\* for the one catch block of main, which logs and calls process.exit(1).
MainStepRaises ==
    /\ mPc = "loop"
    /\ StepMayRaise(mainSteps[mStep])
    /\ mPc' = MainCatch
    /\ mExit' = 1
    /\ UNCHANGED <<mIdx, mStep, mSaved, mStarted>>
    /\ UNCHANGED notMain

MainNext == MainStepReturns \/ MainStepRaises

(***************************************************************************)
(* The page loops: productReviews.fetchReviews, forumThreads.fetchThreads  *)
(* and productLaunches.fetchLaunches                                       *)
(***************************************************************************)

\* Bounds of the upstream the loops run against.
MaxPages == 3
MaxPageItems == 2
MaxLimit == 4
MaxReviews == 21

\* reviewsLimit: 10 in the request, "reviews.length === 10" in the loop.
ReviewsPageSize == 10

\* ---- the reviews cursor: Buffer.from(String(totalFetched)).toString('base64')

RECURSIVE DecimalDigits(_)
DecimalDigits(n) ==
    IF n < 10 THEN <<n>> ELSE Append(DecimalDigits(n \div 10), n % 10)

\* String(n) as its UTF-8 bytes
StringBytes(n) == [i \in 1..Len(DecimalDigits(n)) |-> 48 + DecimalDigits(n)[i]]

Base64Alphabet ==
    <<"A","B","C","D","E","F","G","H","I","J","K","L","M","N","O","P","Q","R",
      "S","T","U","V","W","X","Y","Z","a","b","c","d","e","f","g","h","i","j",
      "k","l","m","n","o","p","q","r","s","t","u","v","w","x","y","z","0","1",
      "2","3","4","5","6","7","8","9","+","/">>

Base64Char(sextet) == Base64Alphabet[sextet + 1]

RECURSIVE Base64(_)
Base64(bytes) ==
    IF Len(bytes) = 0 THEN <<>>
    ELSE LET b1 == bytes[1]
             b2 == IF Len(bytes) >= 2 THEN bytes[2] ELSE 0
             b3 == IF Len(bytes) >= 3 THEN bytes[3] ELSE 0
             c1 == Base64Char(b1 \div 4)
             c2 == Base64Char((b1 % 4) * 16 + b2 \div 16)
             c3 == IF Len(bytes) >= 2
                     THEN Base64Char((b2 % 16) * 4 + b3 \div 64) ELSE "="
             c4 == IF Len(bytes) >= 3 THEN Base64Char(b3 % 64) ELSE "="
         IN  <<c1, c2, c3, c4>> \o
             (IF Len(bytes) > 3 THEN Base64(SubSeq(bytes, 4, Len(bytes)))
                                ELSE <<>>)

\* A cursor that encodes the length of the last batch.
ReviewsCursorOfBatchLength(batchLen, totalFetched) ==
    IF batchLen = ReviewsPageSize THEN Base64(StringBytes(batchLen))
                                  ELSE <<>>

\* The cursor of the next reviews request; <<>> stands for null.
ReviewsCursor(batchLen, totalFetched) ==
    IF batchLen = ReviewsPageSize THEN Base64(StringBytes(totalFetched))
                                  ELSE <<>>

\* ---- upstream

\* Upstream of the reviews: it holds `total` reviews, numbered 1..total in the
\* order "best", and serves reviewsLimit of them after the offset that the
\* cursor encodes (null: from the start).
ReviewsOffset(cursor) ==
    IF cursor = <<>> THEN 0
    ELSE CHOOSE n \in 0..(MaxReviews + ReviewsPageSize) :
             Base64(StringBytes(n)) = cursor

UpstreamReviews(total, cursor) ==
    LET off == ReviewsOffset(cursor)
        n   == IF off >= total THEN 0 ELSE Min(ReviewsPageSize, total - off)
    IN  [items |-> [i \in 1..n |-> off + i]]

\* Upstream of a connection (threads, launches): a sequence of pages, page j
\* holding n items and a pageInfo; the cursor <<j>> is the endCursor of page j,
\* <<>> is null.  The items are numbered in the order upstream serves them.
PageOf == [n : 0..MaxPageItems, more : BOOLEAN]

RECURSIVE SumSizes(_, _)
SumSizes(pages, j) == IF j = 0 THEN 0 ELSE SumSizes(pages, j - 1) + pages[j].n

Upstreams ==
    UNION {{u \in [1..len -> PageOf] : ~u[len].more} : len \in 1..MaxPages}

UpstreamConnection(pages, cursor) ==
    LET j == IF cursor = <<>> THEN 1 ELSE cursor[1] + 1
    IN  IF j > Len(pages)
          THEN [items |-> <<>>, hasNextPage |-> FALSE, endCursor |-> <<>>]
          ELSE [items |-> [i \in 1..pages[j].n |-> SumSizes(pages, j - 1) + i],
                hasNextPage |-> pages[j].more,
                endCursor |-> <<j>>]

\* ---- the bookkeeping of one loop iteration, after a non-empty page

\* allLaunches.slice(0, limit) / allThreads.slice(0, limit) /
\* allReviews.slice(0, limit) once the limit is reached
ApplyLimitWithoutSlice(all, limit) == all

ApplyLimit(all, limit) ==
    IF limit # NoLimit /\ Len(all) >= limit THEN Slice(all, limit) ELSE all

LimitReached(all, limit) == limit # NoLimit /\ Len(all) >= limit

AfterBatchConnectionOverwriting(all, page, limit) ==
    [all     |-> ApplyLimit(page.items, limit),
     cursor  |-> page.endCursor,
     hasMore |-> page.hasNextPage /\ ~LimitReached(page.items, limit)]

\* fetchThreads and fetchLaunches: add the batch, take cursor and hasNextPage
\* from pageInfo, then the limit check.
AfterBatchConnection(all, page, limit) ==
    LET added == all \o page.items
    IN  [all     |-> ApplyLimit(added, limit),
         cursor  |-> page.endCursor,
         hasMore |-> page.hasNextPage /\ ~LimitReached(added, limit)]

\* fetchReviews: add the processed batch, count it, compute the cursor from
\* the running total, stop on a short page, then the limit check.
AfterBatchReviews(all, batch, totalFetched, limit) ==
    LET added  == all \o batch
        total  == totalFetched + Len(batch)
        cursor == ReviewsCursor(Len(batch), total)
    IN  [all          |-> ApplyLimit(added, limit),
         totalFetched |-> total,
         cursor       |-> cursor,
         hasMore      |-> /\ ~(Len(batch) < ReviewsPageSize \/ cursor = <<>>)
                          /\ ~LimitReached(added, limit)]

OnEnrichFailureKeepingReviews(all, batch) ==
    [pc |-> "returned", result |-> all \o batch]

\* What fetchReviews does when an extractor call raises: the catch block of
\* geminiExtractor rethrows ("Don't return original reviews, propagate the
\* error") and the catch block of fetchReviews rethrows.
OnEnrichFailure(all, batch) == [pc |-> "raised", result |-> <<>>]

\* A catch block that hands back what was accumulated.
OnRequestFailureReturningPartial(all) == [pc |-> "returned", result |-> all]

\* What fetchReviews, fetchThreads and fetchLaunches do when a page request
\* throws: the batch fetcher has no catch block, and the catch block of the
\* function logs and rethrows.
OnRequestFailure(all) == [pc |-> "raised", result |-> <<>>]

\* ---- the loops

PageKinds == {"reviews", "threads", "launches"}

LimitsOf(kind) ==
    {NoLimit} \cup (IF kind = "reviews" THEN 0..MaxReviews ELSE 0..MaxLimit)

\* A call of fetchReviews / fetchThreads / fetchLaunches with its options,
\* against an upstream.
PageStart ==
    /\ pKind \in PageKinds
    /\ pLimit \in LimitsOf(pKind)
    /\ pUseGemini \in (IF pKind = "reviews" THEN BOOLEAN ELSE {FALSE})
    /\ pHasKey \in (IF pUseGemini THEN BOOLEAN ELSE {FALSE})
    /\ pUp \in (IF pKind = "reviews" THEN {<<>>} ELSE Upstreams)
    /\ pTotal \in (IF pKind = "reviews" THEN 0..MaxReviews ELSE {0})
    /\ pPc = "start"
    /\ pAll = <<>>
    /\ pBatch = <<>>
    /\ pCursor = <<>>
    /\ pTotalFetched = 0
    /\ pHasMore = TRUE
    /\ pRequests = 0
    /\ pSleeps = 0
    /\ pEnrichCalls = 0
    /\ pEnrichFailed = FALSE
    /\ pFailedAt = 0
    /\ pResult = <<>>

pageConfig == <<pKind, pLimit, pUseGemini, pHasKey, pUp, pTotal>>

\* The head of the function without its credential check.
PageEnterWithoutCheck ==
    /\ pPc = "start"
    /\ pPc' = "fetch"
    /\ UNCHANGED <<pageConfig, pAll, pBatch, pCursor, pTotalFetched, pHasMore,
                   pRequests, pSleeps, pEnrichCalls, pEnrichFailed, pFailedAt,
                   pResult>>
    /\ UNCHANGED notPage

\* The head of the function up to the loop: the credential check of
\* fetchReviews ("No Gemini API key found ..."), then the loop variables.
PageEnter ==
    /\ pPc = "start"
    /\ IF pKind = "reviews" /\ pUseGemini /\ ~pHasKey
         THEN pPc' = "raised"
         ELSE pPc' = "fetch"
    /\ UNCHANGED <<pageConfig, pAll, pBatch, pCursor, pTotalFetched, pHasMore,
                   pRequests, pSleeps, pEnrichCalls, pEnrichFailed, pFailedAt,
                   pResult>>
    /\ UNCHANGED notPage

\* An iteration that goes round without the delay.
PageAfterIterationWithoutSleep(hasMore) == IF hasMore THEN "fetch" ELSE "after"

\* The state after the bookkeeping of an iteration: sleep and go round, or
\* leave the loop.
PageAfterIteration(hasMore) == IF hasMore THEN "sleep" ELSE "after"

\* The page request of an iteration is answered.  An empty page ends the loop;
\* a page of reviews goes to the extractors first when Gemini is enabled;
\* otherwise the batch is added and the loop variables are updated.
PageRequestOk ==
    /\ pPc = "fetch"
    /\ pRequests' = pRequests + 1
    /\ LET page == IF pKind = "reviews" THEN UpstreamReviews(pTotal, pCursor)
                                        ELSE UpstreamConnection(pUp, pCursor)
       IN  IF Len(page.items) = 0
             THEN /\ pHasMore' = FALSE
                  /\ pPc' = "after"
                  /\ UNCHANGED <<pAll, pBatch, pCursor, pTotalFetched>>
             ELSE IF pKind = "reviews"
               THEN IF pUseGemini
                      THEN /\ pBatch' = page.items
                           /\ pPc' = "usedToBuild"
                           /\ UNCHANGED <<pAll, pCursor, pTotalFetched,
                                          pHasMore>>
                      ELSE LET r == AfterBatchReviews(pAll, page.items,
                                                      pTotalFetched, pLimit)
                           IN  /\ pAll' = r.all
                               /\ pTotalFetched' = r.totalFetched
                               /\ pCursor' = r.cursor
                               /\ pHasMore' = r.hasMore
                               /\ pPc' = PageAfterIteration(r.hasMore)
                               /\ UNCHANGED pBatch
               ELSE LET r == AfterBatchConnection(pAll, page, pLimit)
                    IN  /\ pAll' = r.all
                        /\ pCursor' = r.cursor
                        /\ pHasMore' = r.hasMore
                        /\ pPc' = PageAfterIteration(r.hasMore)
                        /\ UNCHANGED <<pBatch, pTotalFetched>>
    /\ UNCHANGED <<pageConfig, pSleeps, pEnrichCalls, pEnrichFailed, pFailedAt,
                   pResult>>
    /\ UNCHANGED notPage

\* The page request throws (axios.post rejects): the catch block of the
\* function logs and rethrows.
PageRequestFails ==
    /\ pPc = "fetch"
    /\ pRequests' = pRequests + 1
    /\ pFailedAt' = pRequests + 1
    /\ LET o == OnRequestFailure(pAll)
       IN  /\ pPc' = o.pc
           /\ pResult' = o.result
    /\ UNCHANGED <<pageConfig, pAll, pBatch, pCursor, pTotalFetched, pHasMore,
                   pSleeps, pEnrichCalls, pEnrichFailed>>
    /\ UNCHANGED notPage

\* The bookkeeping of fetchReviews once the batch went through the extractors.
ReviewsBatchProcessed ==
    LET r == AfterBatchReviews(pAll, pBatch, pTotalFetched, pLimit)
    IN  /\ pAll' = r.all
        /\ pTotalFetched' = r.totalFetched
        /\ pCursor' = r.cursor
        /\ pHasMore' = r.hasMore
        /\ pPc' = PageAfterIteration(r.hasMore)
        /\ pBatch' = <<>>

\* extractUsedToBuildField(reviews) returns (one extractor call for a page of
\* at most 10 reviews).  When some review of the batch has no rating,
\* extractSentiment is called next.
UsedToBuildOk ==
    /\ pPc = "usedToBuild"
    /\ pEnrichCalls' = pEnrichCalls + 1
    /\ \E someWithoutRating \in BOOLEAN :
         IF someWithoutRating
           THEN /\ pPc' = "sentiment"
                /\ UNCHANGED <<pAll, pBatch, pCursor, pTotalFetched, pHasMore>>
           ELSE ReviewsBatchProcessed
    /\ UNCHANGED <<pageConfig, pRequests, pSleeps, pEnrichFailed, pFailedAt,
                   pResult>>
    /\ UNCHANGED notPage

\* extractSentiment(processedBatch) returns.
SentimentOk ==
    /\ pPc = "sentiment"
    /\ pEnrichCalls' = pEnrichCalls + 1
    /\ ReviewsBatchProcessed
    /\ UNCHANGED <<pageConfig, pRequests, pSleeps, pEnrichFailed, pFailedAt,
                   pResult>>
    /\ UNCHANGED notPage

\* An extractor call raises.
EnrichFails ==
    /\ pPc \in {"usedToBuild", "sentiment"}
    /\ pEnrichCalls' = pEnrichCalls + 1
    /\ pEnrichFailed' = TRUE
    /\ LET o == OnEnrichFailure(pAll, pBatch)
       IN  /\ pPc' = o.pc
           /\ pResult' = o.result
    /\ UNCHANGED <<pageConfig, pAll, pBatch, pCursor, pTotalFetched, pHasMore,
                   pRequests, pSleeps, pFailedAt>>
    /\ UNCHANGED notPage

\* await this.sleep(this.requestDelay), then the next iteration.
PageSleep ==
    /\ pPc = "sleep"
    /\ pSleeps' = pSleeps + 1
    /\ pPc' = "fetch"
    /\ UNCHANGED <<pageConfig, pAll, pBatch, pCursor, pTotalFetched, pHasMore,
                   pRequests, pEnrichCalls, pEnrichFailed, pFailedAt,
                   pResult>>
    /\ UNCHANGED notPage

\* After the loop.  fetchThreads first runs the comment pagination of every
\* thread when it has threads (fetchCommentsForThreads catches every error);
\* fetchThreads and fetchLaunches write their files; all three return the
\* accumulated array.
PageLoopEnds ==
    /\ pPc = "after"
    /\ IF pKind = "threads" /\ Len(pAll) > 0
         THEN /\ pPc' = "comments"
              /\ UNCHANGED pResult
         ELSE /\ pPc' = "returned"
              /\ pResult' = pAll
    /\ UNCHANGED <<pageConfig, pAll, pBatch, pCursor, pTotalFetched, pHasMore,
                   pRequests, pSleeps, pEnrichCalls, pEnrichFailed,
                   pFailedAt>>
    /\ UNCHANGED notPage

ThreadsCommentsFetched ==
    /\ pPc = "comments"
    /\ pPc' = "returned"
    /\ pResult' = pAll
    /\ UNCHANGED <<pageConfig, pAll, pBatch, pCursor, pTotalFetched, pHasMore,
                   pRequests, pSleeps, pEnrichCalls, pEnrichFailed,
                   pFailedAt>>
    /\ UNCHANGED notPage

PageNext ==
    \/ PageEnter
    \/ PageRequestOk
    \/ PageRequestFails
    \/ UsedToBuildOk
    \/ SentimentOk
    \/ EnrichFails
    \/ PageSleep
    \/ PageLoopEnds
    \/ ThreadsCommentsFetched

(***************************************************************************)
(* threadComments.fetchComments: the comment pagination of one thread      *)
(***************************************************************************)

MaxCommentsPerPage == 2
MaxCommentLimit == 3

\* limit = 10 when the option is absent
DefaultCommentLimit == 10

CommentIds == {"c1", "c2", "c3"}

SeqsUpTo(S, n) == UNION {[1..k -> S] : k \in 0..n}

\* A top-level comment as parseComments hands it over: its identifier and
\* whether its first page of replies reported a next page.
CommentNode == [id : CommentIds, hasMoreReplies : BOOLEAN]

\* What upstream may answer to one comment-page request: the comments of the
\* page, in order, and the pageInfo of the threads connection.
CommentPages ==
    [comments    : SeqsUpTo(CommentNode, MaxCommentsPerPage),
     hasNextPage : BOOLEAN,
     endCursor   : {"", "next"}]

CommentLimits == {NoLimit, DefaultCommentLimit} \cup (0..MaxCommentLimit)

EmptyCommentsResult == [commentCount |-> 0, parsedComments |-> <<>>]

IdsOf(comments) == {comments[i].id : i \in DOMAIN comments}

\* A batch taken as it is.
UniqueCommentsUnfiltered(parsed, batch) == batch

\* The comments of a batch whose identifier is not yet in the collection.
UniqueComments(parsed, batch) ==
    SelectSeq(batch, LAMBDA c : c.id \notin IdsOf(parsed))

\* fetchAllReplies: every unique comment that has more replies gets the
\* replies of fetchAllRepliesForComment and hasMoreReplies = false.
WithAllReplies(unique, fetchAllReplies) ==
    [i \in DOMAIN unique |->
        IF fetchAllReplies /\ unique[i].hasMoreReplies
        THEN [unique[i] EXCEPT !.hasMoreReplies = FALSE]
        ELSE unique[i]]

CommentsLimitReached(total, limit) == limit # NoLimit /\ total >= limit

\* The iteration without the stop on a batch that brings no new comment.
AfterCommentsBatchWithoutStop(parsed, total, page, limit, fetchAllReplies) ==
    LET unique        == UniqueComments(parsed, page.comments)
        totalComments == total + Len(unique)
    IN  [parsed  |-> parsed \o WithAllReplies(unique, fetchAllReplies),
         total   |-> totalComments,
         cursor  |-> page.endCursor,
         hasMore |-> /\ page.hasNextPage
                     /\ ~CommentsLimitReached(totalComments, limit)]

\* One iteration of the loop on a response that holds a commentable: take
\* the pagination state, drop the comments already collected, expand the
\* replies, push, count, stop on no new comment, then the limit check.
AfterCommentsBatch(parsed, total, page, limit, fetchAllReplies) ==
    LET unique        == UniqueComments(parsed, page.comments)
        commentsCount == Len(unique)
        totalComments == total + commentsCount
    IN  [parsed  |-> parsed \o WithAllReplies(unique, fetchAllReplies),
         total   |-> totalComments,
         cursor  |-> page.endCursor,
         hasMore |-> /\ page.hasNextPage
                     /\ commentsCount # 0
                     /\ ~CommentsLimitReached(totalComments, limit)]

CommentsStart ==
    /\ cLimit \in CommentLimits
    /\ cFetchAllReplies \in BOOLEAN
    /\ cPc = "fetch"
    /\ cParsed = <<>>
    /\ cCursor = ""
    /\ cTotal = 0
    /\ cRequests = 0
    /\ cSleeps = 0
    /\ cExpansions = 0
    /\ cResult = EmptyCommentsResult
    /\ cFailedAt = 0

CommentsAfterIteration(hasMore) == IF hasMore THEN "sleep" ELSE "save"

\* The request succeeds and the response holds the thread's commentable.
CommentsRequestOk ==
    /\ cPc = "fetch"
    /\ \E page \in CommentPages :
        LET r == AfterCommentsBatch(cParsed, cTotal, page, cLimit,
                                    cFetchAllReplies)
        IN  /\ cParsed' = r.parsed
            /\ cTotal' = r.total
            /\ cCursor' = r.cursor
            /\ cPc' = CommentsAfterIteration(r.hasMore)
            /\ cExpansions' = cExpansions +
                 Cardinality({i \in DOMAIN r.parsed :
                     /\ i > Len(cParsed)
                     /\ cFetchAllReplies
                     /\ UniqueComments(cParsed, page.comments)[i - Len(cParsed)]
                            .hasMoreReplies})
    /\ cRequests' = cRequests + 1
    /\ UNCHANGED <<cLimit, cFetchAllReplies, cSleeps, cResult, cFailedAt>>
    /\ UNCHANGED notComments

\* The request succeeds but the response holds no commentable: nothing is
\* added, commentsCount stays 0 and the loop stops.
CommentsRequestInvalid ==
    /\ cPc = "fetch"
    /\ cRequests' = cRequests + 1
    /\ cPc' = CommentsAfterIteration(FALSE)
    /\ UNCHANGED <<cLimit, cFetchAllReplies, cParsed, cCursor, cTotal,
                   cSleeps, cExpansions, cResult, cFailedAt>>
    /\ UNCHANGED notComments

\* A catch block that returns what was collected before the request raised.
CommentsRequestFailsKeepingCollected ==
    /\ cPc = "fetch"
    /\ cRequests' = cRequests + 1
    /\ cPc' = "returned"
    /\ cResult' = [commentCount |-> cTotal, parsedComments |-> cParsed]
    /\ cFailedAt' = cRequests + 1
    /\ UNCHANGED <<cLimit, cFetchAllReplies, cParsed, cCursor, cTotal,
                   cSleeps, cExpansions>>
    /\ UNCHANGED notComments

\* The request raises: the catch block returns the empty result; cFailedAt
\* records which request of the call it was.
CommentsRequestFails ==
    /\ cPc = "fetch"
    /\ cRequests' = cRequests + 1
    /\ cPc' = "returned"
    /\ cResult' = EmptyCommentsResult
    /\ cFailedAt' = cRequests + 1
    /\ UNCHANGED <<cLimit, cFetchAllReplies, cParsed, cCursor, cTotal,
                   cSleeps, cExpansions>>
    /\ UNCHANGED notComments

CommentsSleep ==
    /\ cPc = "sleep"
    /\ cSleeps' = cSleeps + 1
    /\ cPc' = "fetch"
    /\ UNCHANGED <<cLimit, cFetchAllReplies, cParsed, cCursor, cTotal,
                   cRequests, cExpansions, cResult, cFailedAt>>
    /\ UNCHANGED notComments

\* After the loop: both files are written and the result is returned.
CommentsSaved ==
    /\ cPc = "save"
    /\ cPc' = "returned"
    /\ cResult' = [commentCount |-> cTotal, parsedComments |-> cParsed]
    /\ UNCHANGED <<cLimit, cFetchAllReplies, cParsed, cCursor, cTotal,
                   cRequests, cSleeps, cExpansions, cFailedAt>>
    /\ UNCHANGED notComments

\* Writing a file raises: the catch block returns the empty result.
CommentsSaveFails ==
    /\ cPc = "save"
    /\ cPc' = "returned"
    /\ cResult' = EmptyCommentsResult
    /\ UNCHANGED <<cLimit, cFetchAllReplies, cParsed, cCursor, cTotal,
                   cRequests, cSleeps, cExpansions, cFailedAt>>
    /\ UNCHANGED notComments

CommentsNext ==
    \/ CommentsRequestOk
    \/ CommentsRequestInvalid
    \/ CommentsRequestFails
    \/ CommentsSleep
    \/ CommentsSaved
    \/ CommentsSaveFails

(***************************************************************************)
(* The reply expanders: launchComments._expandReplies, and                 *)
(* threadComments.fetchAllRepliesForComment as fetchComments applies it    *)
(***************************************************************************)

MaxInitialReplies == 2
MaxRepliesPerPage == 2
MaxRepliesCount == 3

\* MAX_FETCH_ATTEMPTS of both expanders
MAX_FETCH_ATTEMPTS == 5

\* A reply is modelled by its identifier.
ReplyIds == {"r1", "r2"}

\* comment.repliesEndCursor: null or a stored cursor
NullCursor == "null"

\* no request of the run has been sent yet
NoCursorSent == "none"

StoredCursors == {NullCursor, "c1"}

\* What upstream may answer to one reply-page request: the replies of the
\* page in order (a page may repeat an identifier), and its pageInfo, with
\* hasNextPage and endCursor as the parsers normalise them (|| false, || "").
ReplyPages ==
    [replies     : SeqsUpTo(ReplyIds, MaxRepliesPerPage),
     hasNextPage : BOOLEAN,
     endCursor   : {"", "c2"}]

\* What fetchCommentReplies returns when its request raises.
FailedRepliesResult == [replies |-> <<>>, hasNextPage |-> FALSE, endCursor |-> ""]

ExpandKinds == {"launch", "thread"}

\* The new replies of a page that are kept: those whose identifier is not
\* among the identifiers held before the page.
UniqueNewReplies(allReplies, newReplies) ==
    SelectSeq(newReplies, LAMBDA r : r \notin Range(allReplies))

\* _expandReplies on a response that holds replies data.
AfterReplyPageLaunch(allReplies, page) ==
    IF Len(page.replies) > 0
    THEN [all    |-> allReplies \o UniqueNewReplies(allReplies, page.replies),
          more   |-> page.hasNextPage,
          cursor |-> page.endCursor]
    ELSE [all |-> allReplies, more |-> FALSE, cursor |-> page.endCursor]

\* fetchAllRepliesForComment on the result of a fetchCommentReplies call,
\* the first one (merge through existingRepliesMap) and the following ones
\* (filter through existingIds).
AfterReplyPageThread(allReplies, result) ==
    [all    |-> IF Len(result.replies) > 0
                THEN allReplies \o UniqueNewReplies(allReplies, result.replies)
                ELSE allReplies,
     more   |-> result.hasNextPage,
     cursor |-> result.endCursor]

\* A comment as the first comment page left it, about to be expanded.
ExpandStart ==
    /\ eKind \in ExpandKinds
    /\ eReplies \in SeqsUpTo(ReplyIds, MaxInitialReplies)
    /\ eHasMore \in BOOLEAN
    /\ eCursor \in StoredCursors
    /\ eRepliesCount \in (IF eKind = "launch" THEN 0..MaxRepliesCount ELSE {0})
    /\ eInitial = eReplies
    /\ ePc = "call"
    /\ eAll = <<>>
    /\ eMore = FALSE
    /\ eCur = ""
    /\ eAttempts = 0
    /\ eRequests = 0
    /\ eSleeps = 0
    /\ eFailed = FALSE
    /\ eRun = 1
    /\ eFirst = [replies |-> <<>>, requests |-> 0, failed |-> FALSE]
    /\ eStored = [hasMoreReplies |-> eHasMore, repliesEndCursor |-> eCursor]
    /\ eExcluded = <<>>
    /\ eFirstCursor = NoCursorSent
    /\ eEmptyAt = 0

expandLocals == <<eAll, eMore, eCur, eAttempts>>
expandComment == <<eReplies, eHasMore, eCursor>>
expandFixed == <<eKind, eRepliesCount, eInitial, eRun, eFirst, eStored>>

\* What is recorded of the requests of the current run: the excludedCommentIds
\* of each payload in order, the commentsThreadRepliesCursor of the first
\* payload, and the number of the first request whose page held no edge
\* (0: none so far).
expandLog == <<eExcluded, eFirstCursor, eEmptyAt>>

\* The initial identifiers excluded in every request.
ExcludedOfLaunchRequestAlways(fetchAttempts, initialExcludedIds) ==
    initialExcludedIds

\* "excludedCommentIds": fetchAttempts === 1 ? initialExcludedIds : []
ExcludedOfLaunchRequest(fetchAttempts, initialExcludedIds) ==
    IF fetchAttempts = 1 THEN initialExcludedIds ELSE <<>>

\* excludedCommentIds: cursor === "" ? (excludedCommentIds || []) : []
ExcludedOfThreadRequest(cursor, excludedCommentIds) ==
    IF cursor = "" THEN excludedCommentIds ELSE <<>>

\* The payload of the next request of _expandReplies: initialExcludedIds are
\* the identifiers of comment.replies, which the loop leaves alone.
LaunchRequestSent ==
    /\ eExcluded' = Append(eExcluded,
                           ExcludedOfLaunchRequest(eAttempts + 1, eReplies))
    /\ eFirstCursor' = (IF eRequests = 0 THEN eCur ELSE eFirstCursor)

FirstEmptyPage(replies) ==
    IF eEmptyAt = 0 /\ Len(replies) = 0 THEN eRequests + 1 ELSE eEmptyAt

\* _expandReplies up to its loop: the early return, or the locals.
LaunchExpandEnter ==
    /\ ePc = "call" /\ eKind = "launch"
    /\ IF ~eHasMore /\ eRepliesCount <= Len(eReplies)
       THEN /\ ePc' = "done"
            /\ UNCHANGED expandLocals
       ELSE /\ ePc' = "loop"
            /\ eCur' = (IF eCursor = NullCursor THEN "" ELSE eCursor)
            /\ eAll' = eReplies
            /\ eMore' = eHasMore
            /\ eAttempts' = 0
    /\ UNCHANGED <<expandComment, expandFixed, eRequests, eSleeps, eFailed,
                   expandLog>>
    /\ UNCHANGED notExpand

\* The loop condition without the safety break.
LaunchLoopGuardUnbounded == eMore

\* while (hasMoreRepliesToFetch && fetchAttempts < MAX_FETCH_ATTEMPTS)
LaunchLoopGuard == eMore /\ eAttempts < MAX_FETCH_ATTEMPTS

ExpandAfterRequest(more) == IF more THEN "sleep" ELSE "loop"

LaunchReplyPageOk ==
    /\ ePc = "loop" /\ eKind = "launch" /\ LaunchLoopGuard
    /\ \E page \in ReplyPages :
        LET r == AfterReplyPageLaunch(eAll, page)
        IN  /\ eAll' = r.all
            /\ eMore' = r.more
            /\ eCur' = r.cursor
            /\ ePc' = ExpandAfterRequest(r.more)
            /\ eEmptyAt' = FirstEmptyPage(page.replies)
    /\ LaunchRequestSent
    /\ eAttempts' = eAttempts + 1
    /\ eRequests' = eRequests + 1
    /\ UNCHANGED <<expandComment, expandFixed, eSleeps, eFailed>>
    /\ UNCHANGED notExpand

\* The response holds no replies data: the loop stops.
LaunchReplyPageInvalid ==
    /\ ePc = "loop" /\ eKind = "launch" /\ LaunchLoopGuard
    /\ eMore' = FALSE
    /\ ePc' = ExpandAfterRequest(FALSE)
    /\ eAttempts' = eAttempts + 1
    /\ eRequests' = eRequests + 1
    /\ LaunchRequestSent
    /\ UNCHANGED <<eAll, eCur, expandComment, expandFixed, eSleeps, eFailed,
                   eEmptyAt>>
    /\ UNCHANGED notExpand

\* The request raises: the catch block keeps the replies of the comment and
\* sets hasMoreReplies = true.
LaunchReplyPageFails ==
    /\ ePc = "loop" /\ eKind = "launch" /\ LaunchLoopGuard
    /\ eAttempts' = eAttempts + 1
    /\ eRequests' = eRequests + 1
    /\ eHasMore' = TRUE
    /\ eFailed' = TRUE
    /\ ePc' = "done"
    /\ LaunchRequestSent
    /\ UNCHANGED <<eAll, eMore, eCur, eReplies, eCursor, expandFixed, eSleeps,
                   eEmptyAt>>
    /\ UNCHANGED notExpand

ExpandSleep ==
    /\ ePc = "sleep"
    /\ eSleeps' = eSleeps + 1
    /\ ePc' = "loop"
    /\ UNCHANGED <<expandLocals, expandComment, expandFixed, eRequests, eFailed,
                   expandLog>>
    /\ UNCHANGED notExpand

\* The update of the comment without the reset of repliesEndCursor.
LaunchLoopEndsKeepingCursor ==
    /\ ePc = "loop" /\ eKind = "launch" /\ ~LaunchLoopGuard
    /\ eReplies' = eAll
    /\ eHasMore' = FALSE
    /\ ePc' = "done"
    /\ UNCHANGED <<expandLocals, eCursor, expandFixed, eRequests, eSleeps,
                   eFailed, expandLog>>
    /\ UNCHANGED notExpand

\* After the loop of _expandReplies: the comment is updated.
LaunchLoopEnds ==
    /\ ePc = "loop" /\ eKind = "launch" /\ ~LaunchLoopGuard
    /\ eReplies' = eAll
    /\ eHasMore' = FALSE
    /\ eCursor' = NullCursor
    /\ ePc' = "done"
    /\ UNCHANGED <<expandLocals, expandFixed, eRequests, eSleeps, eFailed,
                   expandLog>>
    /\ UNCHANGED notExpand

\* fetchComments on one unique comment: nothing when hasMoreReplies is
\* false; else fetchAllRepliesForComment, whose early return hands back the
\* replies held, and then replies = allReplies, hasMoreReplies = false.
ThreadExpandEnter ==
    /\ ePc = "call" /\ eKind = "thread"
    /\ IF ~eHasMore
       THEN ePc' = "done" /\ UNCHANGED eHasMore
       ELSE IF eCursor = NullCursor
            THEN ePc' = "done" /\ eHasMore' = FALSE
            ELSE ePc' = "first" /\ UNCHANGED eHasMore
    /\ UNCHANGED <<expandLocals, eReplies, eCursor, expandFixed, eRequests,
                   eSleeps, eFailed, expandLog>>
    /\ UNCHANGED notExpand

ThreadFirstResult(result) ==
    LET r == AfterReplyPageThread(eReplies, result)
    IN  /\ eAll' = r.all
        /\ eMore' = r.more
        /\ eCur' = r.cursor
        /\ eAttempts' = 1
        /\ eRequests' = eRequests + 1
        /\ eExcluded' = Append(eExcluded, ExcludedOfThreadRequest("", <<>>))
        /\ eFirstCursor' = ""
        /\ ePc' = "loop"
        /\ UNCHANGED <<expandComment, expandFixed, eSleeps>>
        /\ UNCHANGED notExpand

\* The first request, with the empty cursor and no exclusion.
ThreadFirstPageOk ==
    /\ ePc = "first"
    /\ \E page \in ReplyPages :
          ThreadFirstResult(page) /\ eEmptyAt' = FirstEmptyPage(page.replies)
    /\ UNCHANGED eFailed

ThreadFirstPageFails ==
    /\ ePc = "first"
    /\ ThreadFirstResult(FailedRepliesResult)
    /\ eFailed' = TRUE
    /\ UNCHANGED eEmptyAt

ThreadLoopGuard == eMore /\ eCur # "" /\ eAttempts < MAX_FETCH_ATTEMPTS

ThreadNextResult(result) ==
    LET r == AfterReplyPageThread(eAll, result)
    IN  /\ eAll' = r.all
        /\ eMore' = r.more
        /\ eCur' = r.cursor
        /\ eAttempts' = eAttempts + 1
        /\ eRequests' = eRequests + 1
        /\ eExcluded' = Append(eExcluded, ExcludedOfThreadRequest(eCur, eAll))
        /\ ePc' = ExpandAfterRequest(r.more)
        /\ UNCHANGED <<expandComment, expandFixed, eSleeps, eFirstCursor>>
        /\ UNCHANGED notExpand

ThreadNextPageOk ==
    /\ ePc = "loop" /\ eKind = "thread" /\ ThreadLoopGuard
    /\ \E page \in ReplyPages :
          ThreadNextResult(page) /\ eEmptyAt' = FirstEmptyPage(page.replies)
    /\ UNCHANGED eFailed

ThreadNextPageFails ==
    /\ ePc = "loop" /\ eKind = "thread" /\ ThreadLoopGuard
    /\ ThreadNextResult(FailedRepliesResult)
    /\ eFailed' = TRUE
    /\ UNCHANGED eEmptyAt

\* fetchAllRepliesForComment returns allReplies and fetchComments stores
\* them in the comment, with hasMoreReplies = false.
ThreadLoopEnds ==
    /\ ePc = "loop" /\ eKind = "thread" /\ ~ThreadLoopGuard
    /\ eReplies' = eAll
    /\ eHasMore' = FALSE
    /\ ePc' = "done"
    /\ UNCHANGED <<expandLocals, eCursor, expandFixed, eRequests, eSleeps,
                   eFailed, expandLog>>
    /\ UNCHANGED notExpand

\* The expander is run a second time on the comment as the first run left it.
ExpandAgain ==
    /\ ePc = "done" /\ eRun = 1
    /\ eRun' = 2
    /\ eFirst' = [replies |-> eReplies, requests |-> eRequests,
                  failed |-> eFailed]
    /\ eRequests' = 0
    /\ eFailed' = FALSE
    /\ eExcluded' = <<>>
    /\ eFirstCursor' = NoCursorSent
    /\ eEmptyAt' = 0
    /\ ePc' = "call"
    /\ UNCHANGED <<expandLocals, expandComment, eKind, eRepliesCount, eInitial,
                   eSleeps, eStored>>
    /\ UNCHANGED notExpand

ExpandNext ==
    \/ LaunchExpandEnter
    \/ LaunchReplyPageOk
    \/ LaunchReplyPageInvalid
    \/ LaunchReplyPageFails
    \/ ExpandSleep
    \/ LaunchLoopEnds
    \/ ThreadExpandEnter
    \/ ThreadFirstPageOk
    \/ ThreadFirstPageFails
    \/ ThreadNextPageOk
    \/ ThreadNextPageFails
    \/ ThreadLoopEnds
    \/ ExpandAgain

(***************************************************************************)
(* The enrichment of one page of reviews: extractUsedToBuildField, then    *)
(* extractSentiment when a review has no rating                            *)
(***************************************************************************)

MaxEnrichReviews == 3
MaxBatchSize == 2

\* null
Null == "null"

\* _parseReviews: id = review.id || '', rating = review.rating || null,
\* usedToBuild = '', sentiment = null
ReviewIds == {"", "v1"}

Ratings == {Null, "5"}

ParsedReviews ==
    [id : ReviewIds, rating : Ratings, usedToBuild : {""}, sentiment : {Null}]

NonEmptySeqsUpTo(S, n) == UNION {[1..k -> S] : k \in 1..n}

\* reviews.slice(i, i + batchSize), i counted from 0
BatchAt(reviews, i, batchSize) ==
    SubSeq(reviews, i + 1, Min(i + batchSize, Len(reviews)))

\* An item of the model's response as _processReviewBatch hands it on: the
\* index field of the item less one, and usedToBuild or '' when it has none.
ExtractionItems(batch) ==
    [index : 0..(Len(batch) - 1), usedToBuild : {"", "an app"}]

\* What _processReviewBatch may return for a batch: items in any order, for
\* all, some or none of the reviews of the batch.
ExtractionResults(batch) == SeqsUpTo(ExtractionItems(batch), Len(batch))

\* What _processSentimentBatch may return for a batch, by position: a
\* sentiment, or no result (Null) at that position.
SentimentResults(batch) == [DOMAIN batch -> {Null, "positive", "negative"}]

\* The update loop of extractUsedToBuildField for the batch at offset i.
WithUsedToBuild(enhanced, i, results) ==
    [k \in DOMAIN enhanced |->
        IF k - i \in DOMAIN results /\ results[k - i].usedToBuild # ""
        THEN [enhanced[k] EXCEPT !.usedToBuild = results[k - i].usedToBuild]
        ELSE enhanced[k]]

HasNoRating(review) == review.rating = Null

\* reviews.findIndex(r => r.id === id), counted from 1; 0 when there is none
FindIndexById(reviews, id) ==
    IF \E k \in DOMAIN reviews : reviews[k].id = id
    THEN CHOOSE k \in DOMAIN reviews :
            /\ reviews[k].id = id
            /\ \A l \in 1..(k - 1) : reviews[l].id # id
    ELSE 0

\* The update loop of extractSentiment for one batch, from position j on.
RECURSIVE WithSentiments(_, _, _, _)
WithSentiments(enhanced, batch, results, j) ==
    IF j > Len(batch) THEN enhanced
    ELSE LET originalIndex == FindIndexById(enhanced, batch[j].id)
             next == IF results[j] # Null /\ originalIndex # 0
                     THEN [enhanced EXCEPT
                             ![originalIndex].sentiment = results[j]]
                     ELSE enhanced
         IN  WithSentiments(next, batch, results, j + 1)

ReviewsNeedingSentiment(reviews) == SelectSeq(reviews, HasNoRating)

\* A call of the enrichment on a page of parsed reviews: of
\* extractUsedToBuildField (which fetchReviews follows with extractSentiment)
\* or of extractSentiment alone.
EnrichStart ==
    /\ gReviews \in NonEmptySeqsUpTo(ParsedReviews, MaxEnrichReviews)
    /\ gBatchSize \in 1..MaxBatchSize
    /\ gHasKey \in BOOLEAN
    /\ gEnhanced = gReviews
    /\ gPc \in {"usedToBuild", "sentiment"}
    /\ gI = 0
    /\ gCalls = 0
    /\ gResults = <<>>
    /\ gAt = 0
    /\ gFailure = <<>>
    /\ gSentiments = <<>>
    /\ gSentAt = 0

\* After extractUsedToBuildField returned: fetchReviews calls
\* extractSentiment when a review of the batch has no rating.
AfterUsedToBuild(enhanced) ==
    IF Len(ReviewsNeedingSentiment(enhanced)) > 0 THEN "sentiment"
                                                   ELSE "returned"

\* Either extractor without an API key raises at once.
EnrichNoKey ==
    /\ gPc \in {"usedToBuild", "sentiment"} /\ ~gHasKey
    /\ gPc' = "raised"
    /\ UNCHANGED <<gReviews, gBatchSize, gHasKey, gEnhanced, gI, gCalls,
                   gResults, gAt, gFailure, gSentiments, gSentAt>>
    /\ UNCHANGED notEnrich

\* One batch of extractUsedToBuildField; after the last batch the call
\* returns.
UsedToBuildBatch ==
    /\ gPc = "usedToBuild" /\ gHasKey
    /\ \E results \in ExtractionResults(BatchAt(gReviews, gI, gBatchSize)) :
        /\ gEnhanced' = WithUsedToBuild(gEnhanced, gI, results)
        /\ gResults' = results
    /\ gAt' = gI
    /\ IF gI + gBatchSize < Len(gReviews)
       THEN gI' = gI + gBatchSize /\ gPc' = gPc
       ELSE gI' = 0 /\ gPc' = AfterUsedToBuild(gEnhanced')
    /\ gCalls' = gCalls + 1
    /\ UNCHANGED <<gReviews, gBatchSize, gHasKey, gFailure, gSentiments,
                   gSentAt>>
    /\ UNCHANGED notEnrich

\* extractSentiment on reviews that all have a rating returns them as they
\* are, without a call of the model.
SentimentNotNeeded ==
    /\ gPc = "sentiment" /\ gHasKey
    /\ Len(ReviewsNeedingSentiment(gEnhanced)) = 0
    /\ gPc' = "returned"
    /\ UNCHANGED <<gReviews, gBatchSize, gHasKey, gEnhanced, gI, gCalls,
                   gResults, gAt, gFailure, gSentiments, gSentAt>>
    /\ UNCHANGED notEnrich

\* One batch of extractSentiment over the reviews without rating.
SentimentBatch ==
    /\ gPc = "sentiment" /\ gHasKey
    /\ Len(ReviewsNeedingSentiment(gEnhanced)) > 0
    /\ LET needing == ReviewsNeedingSentiment(gEnhanced)
           batch   == BatchAt(needing, gI, gBatchSize)
       IN  /\ \E results \in SentimentResults(batch) :
                /\ gEnhanced' = WithSentiments(gEnhanced, batch, results, 1)
                /\ gSentiments' = results
           /\ gSentAt' = gI
           /\ IF gI + gBatchSize < Len(needing)
              THEN gI' = gI + gBatchSize /\ gPc' = gPc
              ELSE gI' = 0 /\ gPc' = "returned"
    /\ gCalls' = gCalls + 1
    /\ UNCHANGED <<gReviews, gBatchSize, gHasKey, gResults, gAt, gFailure>>
    /\ UNCHANGED notEnrich

\* A catch block that logs and lets the loop go on.
AfterFailedCallGoingOn(pc) == pc

\* The catch blocks of the batch processor and of the extractor rethrow.
AfterFailedCall(pc) == "raised"

\* A call of the model raises, or its response has no valid structure or
\* no JSON text: the extractor raises.
EnrichBatchFails ==
    /\ gPc \in {"usedToBuild", "sentiment"} /\ gHasKey
    /\ gPc = "sentiment" => Len(ReviewsNeedingSentiment(gEnhanced)) > 0
    /\ gPc' = AfterFailedCall(gPc)
    /\ gCalls' = gCalls + 1
    /\ gFailure' = <<[calls |-> gCalls + 1, enhanced |-> gEnhanced]>>
    /\ UNCHANGED <<gReviews, gBatchSize, gHasKey, gEnhanced, gI, gResults,
                   gAt, gSentiments, gSentAt>>
    /\ UNCHANGED notEnrich

EnrichNext ==
    \/ EnrichNoKey
    \/ UsedToBuildBatch
    \/ SentimentNotNeeded
    \/ SentimentBatch
    \/ EnrichBatchFails

(***************************************************************************)
(* productMakers: fetchMakers and the correlator _parseMakers              *)
(***************************************************************************)

MaxRecords == 4
MaxMakers == 2

\* Author identifiers as the parsers store them: '' when upstream gave none.
AuthorIds == {"", "U1", "U2"}

MakerIds == {"", "U1"}

\* A first-level reply is modelled by its author identifier, a comment by its
\* author identifier and its replies, a launch by its comments, a thread by
\* its author identifier and its comments.  The sets below hold the values
\* made of exactly n records.
CommentsOf(n) ==
    {[author |-> a, replies |-> rs] : a \in AuthorIds, rs \in [1..(n - 1) -> AuthorIds]}

RECURSIVE CommentSeqsOf(_)
CommentSeqsOf(n) ==
    IF n = 0 THEN {<<>>}
    ELSE UNION {{<<c>> \o s : c \in CommentsOf(k), s \in CommentSeqsOf(n - k)} :
                k \in 1..n}

LaunchesOf(n) == {[comments |-> cs] : cs \in CommentSeqsOf(n - 1)}

RECURSIVE LaunchSeqsOf(_)
LaunchSeqsOf(n) ==
    IF n = 0 THEN {<<>>}
    ELSE UNION {{<<l>> \o s : l \in LaunchesOf(k), s \in LaunchSeqsOf(n - k)} :
                k \in 1..n}

ThreadsOf(n) ==
    {[author |-> a, comments |-> cs] : a \in AuthorIds, cs \in CommentSeqsOf(n - 1)}

RECURSIVE ThreadSeqsOf(_)
ThreadSeqsOf(n) ==
    IF n = 0 THEN {<<>>}
    ELSE UNION {{<<t>> \o s : t \in ThreadsOf(k), s \in ThreadSeqsOf(n - k)} :
                k \in 1..n}

\* launchesData: null (or without launches), or an object with launches.
NoData == [present |-> FALSE, items |-> <<>>]

LaunchesDataOf(n) ==
    IF n = 0 THEN {NoData, [present |-> TRUE, items |-> <<>>]}
    ELSE {[present |-> TRUE, items |-> ls] : ls \in LaunchSeqsOf(n)}

ThreadsDataOf(n) ==
    IF n = 0 THEN {NoData, [present |-> TRUE, items |-> <<>>]}
    ELSE {[present |-> TRUE, items |-> ts] : ts \in ThreadSeqsOf(n)}

\* The pairs (launchesData, threadsData) of at most MaxRecords records.
MakerInputs ==
    UNION {LaunchesDataOf(i) \X ThreadsDataOf(j) :
           <<i, j>> \in {p \in (0..MaxRecords) \X (0..MaxRecords) :
                            p[1] + p[2] <= MaxRecords}}

\* undefined, where a sequence of entries is expected
Undefined == <<<<0, 0, 0>>>>

\* x || []
OrEmptyKeepingUndefined(x) == x

OrEmpty(x) == IF x = Undefined THEN <<>> ELSE x

\* An entry of an activity sequence is modelled by the place of its record:
\* launch or thread, comment (0: the thread itself), reply (0: the comment).
EmptyActivity ==
    [launchComments |-> <<>>, forumComments |-> <<>>,
     forumThreadsAuthored |-> <<>>]

PushEntryInFront(activity, field, entry) ==
    [activity EXCEPT ![field] = <<entry>> \o @]

PushEntry(activity, field, entry) ==
    [activity EXCEPT ![field] = Append(@, entry)]

\* The isReply key of the object literal pushed for a place: the literal of a
\* reply has isReply: true, the literal of a top-level forum comment has
\* isReply: false, and the literal of a top-level launch comment has the keys
\* commentId, launchId, launchName, body, createdAt, votesCount and isSticky
\* only, so that reading its isReply gives undefined.
IsReplyOfEntry(field, entry) ==
    IF entry[3] > 0 THEN "true"
    ELSE IF field = "forumComments" THEN "false"
    ELSE "undefined"

\* if (authorId) { if (!commentsByAuthor[authorId]) commentsByAuthor[authorId]
\* = {...}; commentsByAuthor[authorId].<field>.push(entry) }
Record(index, authorId, field, entry) ==
    IF authorId = "" THEN index
    ELSE [k \in DOMAIN index \cup {authorId} |->
            IF k = authorId
            THEN PushEntry(IF k \in DOMAIN index THEN index[k]
                                                 ELSE EmptyActivity,
                           field, entry)
            ELSE index[k]]

RECURSIVE ScanReplies(_, _, _, _, _, _)
ScanReplies(index, replies, field, i, c, r) ==
    IF r > Len(replies) THEN index
    ELSE ScanReplies(Record(index, replies[r], field, <<i, c, r>>),
                     replies, field, i, c, r + 1)

\* comments.forEach: the comment, then its replies
RECURSIVE ScanComments(_, _, _, _, _)
ScanComments(index, comments, field, i, c) ==
    IF c > Len(comments) THEN index
    ELSE LET withComment ==
                 Record(index, comments[c].author, field, <<i, c, 0>>)
             withReplies ==
                 ScanReplies(withComment, comments[c].replies, field, i, c, 1)
         IN  ScanComments(withReplies, comments, field, i, c + 1)

\* launchesData.launches.forEach
RECURSIVE ScanLaunches(_, _, _)
ScanLaunches(index, launches, i) ==
    IF i > Len(launches) THEN index
    ELSE ScanLaunches(
            ScanComments(index, launches[i].comments, "launchComments", i, 1),
            launches, i + 1)

\* threadsData.threads.forEach: the comments of the thread, then the thread
RECURSIVE ScanThreads(_, _, _)
ScanThreads(index, threads, i) ==
    IF i > Len(threads) THEN index
    ELSE LET withComments ==
                 ScanComments(index, threads[i].comments, "forumComments", i, 1)
             withThread ==
                 Record(withComments, threads[i].author,
                        "forumThreadsAuthored", <<i, 0, 0>>)
         IN  ScanThreads(withThread, threads, i + 1)

\* commentsByAuthor after both scans
CommentsByAuthor(launchesData, threadsData) ==
    LET afterLaunches ==
            IF launchesData.present
            THEN ScanLaunches(<<>>, launchesData.items, 1) ELSE <<>>
    IN  IF threadsData.present
        THEN ScanThreads(afterLaunches, threadsData.items, 1)
        ELSE afterLaunches

\* commentsByAuthor[id]?.<field>
Lookup(index, id, field) ==
    IF id \in DOMAIN index THEN index[id][field] ELSE Undefined

\* _parseMakers on the makers of the response, given by their identifiers
ParseMakers(makers, launchesData, threadsData) ==
    LET index == CommentsByAuthor(launchesData, threadsData)
    IN  [m \in DOMAIN makers |->
            [id |-> makers[m],
             launchComments |->
                 OrEmpty(Lookup(index, makers[m], "launchComments")),
             forumComments |->
                 OrEmpty(Lookup(index, makers[m], "forumComments")),
             forumThreadsAuthored |->
                 OrEmpty(Lookup(index, makers[m], "forumThreadsAuthored"))]]

\* A call of fetchMakers with the data collected by the earlier stages.
MakersStart ==
    /\ \E input \in MakerInputs :
          kLaunchesData = input[1] /\ kThreadsData = input[2]
    /\ kMakers \in NonEmptySeqsUpTo(MakerIds, MaxMakers)
    /\ kPc = "call"
    /\ kResult = <<>>

\* The response holds the makers: fetchMakers returns _parseMakers of them.
FetchMakersOk ==
    /\ kPc = "call"
    /\ kResult' = ParseMakers(kMakers, kLaunchesData, kThreadsData)
    /\ kPc' = "returned"
    /\ UNCHANGED <<kLaunchesData, kThreadsData, kMakers>>
    /\ UNCHANGED notMakers

\* The request raises or the response holds no makers: fetchMakers returns
\* null.
FetchMakersNull ==
    /\ kPc = "call"
    /\ kPc' = "returnedNull"
    /\ UNCHANGED <<kLaunchesData, kThreadsData, kMakers, kResult>>
    /\ UNCHANGED notMakers

MakersNext == FetchMakersOk \/ FetchMakersNull

(***************************************************************************)
(* The program as loaded: main and the crawl calls that the required       *)
(* modules start at load time (their module-level test())                  *)
(***************************************************************************)

MaxTaskRequests == 2

\* The async calls started while the entry module loads, in the order of its
\* require statements: forumThreads requires threadComments, whose last
\* line calls test(), then calls its own test(); productLaunches requires
\* launchComments, whose last line calls test(), then calls its own test();
\* productDetails calls test(); productMakers has its call commented out;
\* the last line of the entry module calls main().
LoadTasks ==
    <<"threadComments.test", "forumThreads.test", "launchComments.test",
      "productLaunches.test", "productDetails.test", "main">>

TaskNames == Range(LoadTasks)

\* An async function runs synchronously up to its first await, which in each
\* of these calls is an axios.post: the call returns with one request in
\* flight.
LoadStart ==
    /\ lStarted = 0
    /\ lPc = [t \in TaskNames |-> "notStarted"]
    /\ lRequests = [t \in TaskNames |-> 0]

\* The next statement of the synchronous load starts its call.
LoadCallStarts ==
    /\ lStarted < Len(LoadTasks)
    /\ lStarted' = lStarted + 1
    /\ lPc' = [lPc EXCEPT ![LoadTasks[lStarted + 1]] = "request"]
    /\ lRequests' = [lRequests EXCEPT ![LoadTasks[lStarted + 1]] = 1]
    /\ UNCHANGED notLoad

\* No response is handled before the synchronous load has run to its end.
LoadFinished == lStarted = Len(LoadTasks)

\* The request of a call completes and the call, after its awaited delay if
\* any, issues its next request.
TaskRequestThenSleep(t) ==
    /\ LoadFinished
    /\ lPc[t] = "request"
    /\ lRequests[t] < MaxTaskRequests
    /\ lPc' = [lPc EXCEPT ![t] = "sleep"]
    /\ UNCHANGED <<lStarted, lRequests>>
    /\ UNCHANGED notLoad

TaskSleepEnds(t) ==
    /\ lPc[t] = "sleep"
    /\ lPc' = [lPc EXCEPT ![t] = "request"]
    /\ lRequests' = [lRequests EXCEPT ![t] = @ + 1]
    /\ UNCHANGED lStarted
    /\ UNCHANGED notLoad

\* The request of a call completes, or fails, and the call ends.
TaskEnds(t) ==
    /\ LoadFinished
    /\ lPc[t] = "request"
    /\ lPc' = [lPc EXCEPT ![t] = "done"]
    /\ UNCHANGED <<lStarted, lRequests>>
    /\ UNCHANGED notLoad

LoadNext ==
    \/ LoadCallStarts
    \/ \E t \in TaskNames : TaskRequestThenSleep(t)
    \/ \E t \in TaskNames : TaskSleepEnds(t)
    \/ \E t \in TaskNames : TaskEnds(t)

(***************************************************************************)
(* launchComments.fetchLaunchComments, called for each launch by           *)
(* productLaunches.fetchLaunchesWithComments                               *)
(***************************************************************************)

MaxLaunches == 2
MaxCommentPages == 2
MaxLaunchCommentsPerPage == 2
MaxLaunchCommentLimit == 2

\* let postId = null, and the identifiers that a first response may hold
NullPostId == "null"
PostIds == {"p1", "p2"}

\* commentsLimit: null for all, or a number
LaunchCommentLimits == {NoLimit} \cup (0..MaxLaunchCommentLimit)

\* The comments that upstream holds for a launch are told apart by the page
\* request that returns them and their place in that page.
LaunchCommentsOfPage(request, count) ==
    [k \in 1..count |-> [page |-> request, place |-> k]]

\* A failed batch that reports a next page.
FailedBatchWithNextPage == [comments |-> <<>>, hasNextPage |-> TRUE]

\* What _fetchFirstBatch and _fetchNextCommentsBatch hand back from their
\* catch block when the request raises.
FailedBatch == [comments |-> <<>>, hasNextPage |-> FALSE]

\* splice(limit) when the collection is longer than the limit
SpliceToLimit(parsed, limit) ==
    IF Len(parsed) > limit THEN Slice(parsed, limit) ELSE parsed

LaunchLimitReached(total, limit) == limit # NoLimit /\ total >= limit

\* One iteration of the loop of fetchLaunchComments after the batch came
\* back: push the comments (their replies are expanded in place first),
\* count, take the pagination state, then the limit check.
AfterLaunchCommentsBatch(parsed, total, batch, limit) ==
    LET totalComments == total + Len(batch.comments)
        reached       == LaunchLimitReached(totalComments, limit)
    IN  [parsed  |-> IF reached
                     THEN SpliceToLimit(parsed \o batch.comments, limit)
                     ELSE parsed \o batch.comments,
         total   |-> totalComments,
         hasMore |-> batch.hasNextPage /\ ~reached]

LaunchCommentsAfterIteration(hasMore) == IF hasMore THEN "sleep" ELSE "save"

\* fetchLaunchesWithComments after fetchLaunches returned a non-empty
\* sequence of launches, about to call fetchLaunchComments for the first.
LaunchCommentsStart ==
    /\ lcLaunches \in 1..MaxLaunches
    /\ lcLimit \in LaunchCommentLimits
    /\ lcI = 1
    /\ lcPc = "call"
    /\ lcFirstBatch = TRUE
    /\ lcParsed = <<>>
    /\ lcTotal = 0
    /\ lcRequests = 0
    /\ lcSleeps = 0
    /\ lcFailedAt = 0
    /\ lcBefore = <<>>
    /\ lcRaised = FALSE
    /\ lcCalls = 0
    /\ lcComments = <<>>
    /\ lcExpandFailedAt = 0
    /\ lcPostId = NullPostId
    /\ lcSent = <<>>

\* lcExpandFailedAt: the number of the first page request of the call whose
\* batch held a comment with a failing reply-page request (0: none so far).
\* lcSent: the page requests of the call in order, each with its
\* operationName and, for Comments, its commentsSubjectId.
lcLocals == <<lcFirstBatch, lcParsed, lcTotal, lcRequests, lcSleeps,
              lcFailedAt, lcBefore, lcExpandFailedAt, lcPostId, lcSent>>

\* The payload of _fetchFirstBatch, which names the launch by its slug.
FirstBatchRequest ==
    [operationName |-> "PostPageComments", commentsSubjectId |-> NullPostId]

\* The payload of a later request with the post identifier left out.
NextBatchRequestWithoutPostId(postId) ==
    [operationName |-> "Comments", commentsSubjectId |-> NullPostId]

\* The payload of _fetchNextCommentsBatch(postId, ...).
NextBatchRequest(postId) ==
    [operationName |-> "Comments", commentsSubjectId |-> postId]
lcOuter == <<lcLaunches, lcLimit, lcI, lcRaised, lcCalls, lcComments>>

\* fetchLaunchComments is entered: its locals.
LaunchCommentsCall ==
    /\ lcPc = "call"
    /\ lcPc' = "fetch"
    /\ lcFirstBatch' = TRUE
    /\ lcParsed' = <<>>
    /\ lcTotal' = 0
    /\ lcRequests' = 0
    /\ lcSleeps' = 0
    /\ lcFailedAt' = 0
    /\ lcBefore' = <<>>
    /\ lcRaised' = FALSE
    /\ lcExpandFailedAt' = 0
    /\ lcPostId' = NullPostId
    /\ lcSent' = <<>>
    /\ lcCalls' = lcCalls + 1
    /\ UNCHANGED <<lcLaunches, lcLimit, lcI, lcComments>>
    /\ UNCHANGED notLaunchComments

\* The answers to the page request now issued: the number of comments and
\* hasNextPage; upstream has at most MaxCommentPages pages.
LaunchCommentBatches ==
    [comments    : {LaunchCommentsOfPage(lcRequests + 1, n) :
                       n \in 0..MaxLaunchCommentsPerPage},
     hasNextPage : IF lcRequests + 1 < MaxCommentPages
                   THEN BOOLEAN ELSE {FALSE}]

\* A reply-page request can fail only where a comment is expanded.
ExpansionFailures(batch) ==
    IF Len(batch.comments) > 0 THEN BOOLEAN ELSE {FALSE}

\* _expandReplies with a failing reply-page request that leaves through its
\* catch block rethrowing.
ExpandRepliesOutcomeRethrowing(failed) ==
    IF failed THEN "raised" ELSE "returned"

\* How the awaited _expandReplies calls of a batch end: the catch block of
\* _expandReplies logs, sets hasMoreReplies and returns.
ExpandRepliesOutcome(failed) == "returned"

\* The body of the loop on a batch; failed: a reply-page request failed in
\* the expansion of one of its comments.
LaunchCommentsIterate(batch, failed) ==
    LET r == AfterLaunchCommentsBatch(lcParsed, lcTotal, batch, lcLimit)
    IN  /\ IF ExpandRepliesOutcome(failed) = "raised"
           THEN /\ lcPc' = "raised"
                /\ UNCHANGED <<lcParsed, lcTotal>>
           ELSE /\ lcParsed' = r.parsed
                /\ lcTotal' = r.total
                /\ lcPc' = LaunchCommentsAfterIteration(r.hasMore)
        /\ lcExpandFailedAt' = (IF failed /\ lcExpandFailedAt = 0
                                THEN lcRequests + 1 ELSE lcExpandFailedAt)

\* The first request succeeds and the response holds the post with its id.
FirstBatchOk ==
    /\ lcPc = "fetch" /\ lcFirstBatch
    /\ \E batch \in LaunchCommentBatches :
          \E failed \in ExpansionFailures(batch) :
             LaunchCommentsIterate(batch, failed)
    /\ lcFirstBatch' = FALSE
    /\ lcRequests' = lcRequests + 1
    /\ lcSent' = Append(lcSent, FirstBatchRequest)
    /\ lcPostId' \in PostIds
    /\ UNCHANGED <<lcSleeps, lcFailedAt, lcBefore>>
    /\ UNCHANGED lcOuter
    /\ UNCHANGED notLaunchComments

\* The first request succeeds but the response holds no post, or a post
\* without id: no post id, the loop is left by break.
FirstBatchNoPostId ==
    /\ lcPc = "fetch" /\ lcFirstBatch
    /\ lcFirstBatch' = FALSE
    /\ lcRequests' = lcRequests + 1
    /\ lcPc' = "save"
    /\ lcSent' = Append(lcSent, FirstBatchRequest)
    /\ UNCHANGED <<lcParsed, lcTotal, lcSleeps, lcFailedAt, lcBefore,
                   lcExpandFailedAt, lcPostId>>
    /\ UNCHANGED lcOuter
    /\ UNCHANGED notLaunchComments

\* The first request raises: _fetchFirstBatch hands back postId null, the
\* loop is left by break.
FirstBatchFails ==
    /\ lcPc = "fetch" /\ lcFirstBatch
    /\ lcFirstBatch' = FALSE
    /\ lcRequests' = lcRequests + 1
    /\ lcFailedAt' = lcRequests + 1
    /\ lcBefore' = lcParsed
    /\ lcPc' = "save"
    /\ lcSent' = Append(lcSent, FirstBatchRequest)
    /\ UNCHANGED <<lcParsed, lcTotal, lcSleeps, lcExpandFailedAt, lcPostId>>
    /\ UNCHANGED lcOuter
    /\ UNCHANGED notLaunchComments

NextBatchOk ==
    /\ lcPc = "fetch" /\ ~lcFirstBatch
    /\ \E batch \in LaunchCommentBatches :
          \E failed \in ExpansionFailures(batch) :
             LaunchCommentsIterate(batch, failed)
    /\ lcRequests' = lcRequests + 1
    /\ lcSent' = Append(lcSent, NextBatchRequest(lcPostId))
    /\ UNCHANGED <<lcFirstBatch, lcSleeps, lcFailedAt, lcBefore, lcPostId>>
    /\ UNCHANGED lcOuter
    /\ UNCHANGED notLaunchComments

\* A later request raises: _fetchNextCommentsBatch hands back its failed
\* batch, which the iteration handles as any other batch.
NextBatchFails ==
    /\ lcPc = "fetch" /\ ~lcFirstBatch
    /\ LaunchCommentsIterate(FailedBatch, FALSE)
    /\ lcRequests' = lcRequests + 1
    /\ lcFailedAt' = lcRequests + 1
    /\ lcBefore' = lcParsed
    /\ lcSent' = Append(lcSent, NextBatchRequest(lcPostId))
    /\ UNCHANGED <<lcFirstBatch, lcSleeps, lcPostId>>
    /\ UNCHANGED lcOuter
    /\ UNCHANGED notLaunchComments

LaunchCommentsSleep ==
    /\ lcPc = "sleep"
    /\ lcSleeps' = lcSleeps + 1
    /\ lcPc' = "fetch"
    /\ UNCHANGED <<lcFirstBatch, lcParsed, lcTotal, lcRequests, lcFailedAt,
                   lcBefore, lcExpandFailedAt, lcPostId, lcSent>>
    /\ UNCHANGED lcOuter
    /\ UNCHANGED notLaunchComments

\* The loop of fetchLaunchesWithComments after launch i.
AfterLaunch(delayed) ==
    IF lcI < lcLaunches
    THEN /\ lcPc' = (IF delayed THEN "between" ELSE "call")
         /\ lcI' = (IF delayed THEN lcI ELSE lcI + 1)
    ELSE /\ lcPc' = "done"
         /\ UNCHANGED lcI

\* What fetchLaunchComments returns after its loop: the running count and
\* the collection.
LaunchCommentsResult ==
    [commentCount |-> lcTotal, parsedComments |-> lcParsed]

\* After the loop of fetchLaunchComments both files are written and the
\* result is returned; fetchLaunchesWithComments stores parsedComments in
\* the launch and, unless it was the last launch, awaits its delay.
LaunchCommentsSaved ==
    /\ lcPc = "save"
    /\ lcComments' = Append(lcComments, lcParsed)
    /\ AfterLaunch(TRUE)
    /\ UNCHANGED lcLocals
    /\ UNCHANGED <<lcLaunches, lcLimit, lcRaised, lcCalls>>
    /\ UNCHANGED notLaunchComments

\* Writing a file raises: fetchLaunchComments rethrows, and the catch block
\* of fetchLaunchesWithComments gives the launch no comments and goes on
\* with the next launch.
LaunchCommentsSaveFails ==
    /\ lcPc = "save"
    /\ lcComments' = Append(lcComments, <<>>)
    /\ lcRaised' = TRUE
    /\ AfterLaunch(FALSE)
    /\ UNCHANGED lcLocals
    /\ UNCHANGED <<lcLaunches, lcLimit, lcCalls>>
    /\ UNCHANGED notLaunchComments

\* The delay before the next launch's comments.
BetweenLaunches ==
    /\ lcPc = "between"
    /\ lcPc' = "call"
    /\ lcI' = lcI + 1
    /\ UNCHANGED lcLocals
    /\ UNCHANGED <<lcLaunches, lcLimit, lcRaised, lcCalls, lcComments>>
    /\ UNCHANGED notLaunchComments

LaunchCommentsNext ==
    \/ LaunchCommentsCall
    \/ FirstBatchOk
    \/ FirstBatchNoPostId
    \/ FirstBatchFails
    \/ NextBatchOk
    \/ NextBatchFails
    \/ LaunchCommentsSleep
    \/ LaunchCommentsSaved
    \/ LaunchCommentsSaveFails
    \/ BetweenLaunches

(***************************************************************************)
(* threadComments: parseComments and formatComments on one response        *)
(***************************************************************************)

MaxCommentEdges == 2
MaxReplyEdges == 1

\* An optional nested field is the empty sequence when it is absent or null
\* and a sequence of one value when it is present.
Absent == <<>>

Optional(S) == {Absent} \cup {<<x>> : x \in S}

UpstreamUsers == [username : {"u1"}]

\* An edge of the replies connection of a comment: its node, if any, with
\* its user, if any.
ReplyEdges == [node : Optional([id : {"r1"}, user : Optional(UpstreamUsers)])]

\* An edge of the threads connection of the commentable.
CommentEdges ==
    [node : Optional([id      : {"c1"},
                      user    : Optional(UpstreamUsers),
                      replies : SeqsUpTo(ReplyEdges, MaxReplyEdges)])]

\* _parseCommentNode: null for no node; author is null when the node has no
\* user.
ParseCommentNode(node) ==
    IF node = Absent THEN Absent
    ELSE <<[id      |-> node[1].id,
            author  |-> IF node[1].user # Absent
                        THEN <<[username |-> node[1].user[1].username]>>
                        ELSE Absent,
            replies |-> <<>>]>>

\* The sequence of the values present, in order.
RECURSIVE Present(_)
Present(options) ==
    IF options = <<>> THEN <<>>
    ELSE options[1] \o Present(Tail(options))

\* The replies of a comment node: every reply edge through
\* _parseCommentNode, nulls filtered out.
ParseReplies(edges) ==
    Present([i \in DOMAIN edges |-> ParseCommentNode(edges[i].node)])

\* parseComments: edges without node are skipped; the main comment gets its
\* parsed replies.
ParseComments(edges) ==
    Present([i \in DOMAIN edges |->
        IF edges[i].node = Absent THEN Absent
        ELSE <<[ParseCommentNode(edges[i].node)[1] EXCEPT
                  !.replies = ParseReplies(edges[i].node[1].replies)]>>])

\* Reading comment.author.username throws a TypeError when author is null.
FormatThrows(comment) ==
    \/ comment.author = Absent
    \/ \E i \in DOMAIN comment.replies : comment.replies[i].author = Absent

\* The formatted comment, when nothing throws: the author's username and
\* the formatted replies.
FormatComment(comment) ==
    [id         |-> comment.id,
     author     |-> comment.author[1].username,
     replyCount |-> Len(comment.replies),
     replies    |-> [i \in DOMAIN comment.replies |->
                        [id         |-> comment.replies[i].id,
                         author     |-> comment.replies[i].author[1].username,
                         replyCount |-> 0,
                         replies    |-> <<>>]]]

FormatStart ==
    /\ nEdges \in SeqsUpTo(CommentEdges, MaxCommentEdges)
    /\ nPc = "parse"
    /\ nParsed = <<>>
    /\ nFormatted = <<>>

\* parseComments(response.data) on a response that holds the commentable
\* and its threads connection.
CommentsParsed ==
    /\ nPc = "parse"
    /\ nParsed' = ParseComments(nEdges)
    /\ nPc' = "format"
    /\ UNCHANGED <<nEdges, nFormatted>>
    /\ UNCHANGED notFormat

\* formatComments(comments) returns the formatted comments.
FormatCommentsReturns ==
    /\ nPc = "format"
    /\ \A i \in DOMAIN nParsed : ~FormatThrows(nParsed[i])
    /\ nFormatted' = [i \in DOMAIN nParsed |-> FormatComment(nParsed[i])]
    /\ nPc' = "returned"
    /\ UNCHANGED <<nEdges, nParsed>>
    /\ UNCHANGED notFormat

\* formatComments(comments) throws out of its map callback.
FormatCommentsThrows ==
    /\ nPc = "format"
    /\ \E i \in DOMAIN nParsed : FormatThrows(nParsed[i])
    /\ nPc' = "thrown"
    /\ UNCHANGED <<nEdges, nParsed, nFormatted>>
    /\ UNCHANGED notFormat

FormatNext ==
    \/ CommentsParsed
    \/ FormatCommentsReturns
    \/ FormatCommentsThrows

(***************************************************************************)
(* forumThreads.fetchAndFormatThreadsWithComments: fetchThreads, which     *)
(* runs fetchCommentsForThreads itself, then the caller's own run          *)
(***************************************************************************)

MaxThreads == 3

\* const { limit = null, commentsLimit = 100 } = options;
DefaultThreadCommentsLimit == 100

\* options.commentsLimit as fetchAndFormatThreadsWithComments gets it: 0, a
\* positive number, or null (undefined takes the default of fetchThreads).
ThreadCommentsLimits == {0, DefaultThreadCommentsLimit, NoLimit}

\* if (allThreads.length > 0) in fetchThreads
FetchThreadsRunsComments(threads) == Len(threads) > 0

\* if (threads.length > 0 && options.commentsLimit !== 0) in
\* fetchAndFormatThreadsWithComments
CallerRunsComments(threads, commentsLimit) ==
    Len(threads) > 0 /\ commentsLimit # 0

\* A call of fetchAndFormatThreadsWithComments; the threads that fetchThreads
\* will have collected are told apart by their place, each with or without a
\* slug.
ThreadsWithCommentsStart ==
    /\ tThreads \in SeqsUpTo(BOOLEAN, MaxThreads)
    /\ tCommentsLimit \in ThreadCommentsLimits
    /\ tPc = "fetchThreads"
    /\ tI = 0
    /\ tPass = 0
    /\ tRuns = [i \in DOMAIN tThreads |-> 0]

\* The page loop of fetchThreads has ended with allThreads.
FetchThreadsLoopEnds ==
    /\ tPc = "fetchThreads"
    /\ IF FetchThreadsRunsComments(tThreads)
       THEN tPc' = "comments" /\ tI' = 1 /\ tPass' = 1
       ELSE tPc' = "fetched" /\ UNCHANGED <<tI, tPass>>
    /\ UNCHANGED <<tThreads, tCommentsLimit, tRuns>>
    /\ UNCHANGED notThreadsWithComments

\* A page request of fetchThreads throws: fetchThreads rethrows and so does
\* fetchAndFormatThreadsWithComments.
FetchThreadsRaises ==
    /\ tPc = "fetchThreads"
    /\ tPc' = "raised"
    /\ UNCHANGED <<tThreads, tCommentsLimit, tI, tPass, tRuns>>
    /\ UNCHANGED notThreadsWithComments

\* One iteration of the loop of fetchCommentsForThreads: a thread without
\* slug is skipped, else fetchComments is run for the thread.
CommentsForNextThread ==
    /\ tPc = "comments"
    /\ tI <= Len(tThreads)
    /\ tRuns' = (IF tThreads[tI] THEN [tRuns EXCEPT ![tI] = @ + 1] ELSE tRuns)
    /\ tI' = tI + 1
    /\ UNCHANGED <<tThreads, tCommentsLimit, tPc, tPass>>
    /\ UNCHANGED notThreadsWithComments

\* fetchCommentsForThreads returns, to fetchThreads (which then writes its
\* files and returns allThreads) or to fetchAndFormatThreadsWithComments.
CommentsForThreadsReturns ==
    /\ tPc = "comments"
    /\ tI > Len(tThreads)
    /\ tPc' = (IF tPass = 1 THEN "fetched" ELSE "formatted")
    /\ UNCHANGED <<tThreads, tCommentsLimit, tI, tPass, tRuns>>
    /\ UNCHANGED notThreadsWithComments

\* fetchAndFormatThreadsWithComments after fetchThreads returned.
AfterFetchThreads ==
    /\ tPc = "fetched"
    /\ IF CallerRunsComments(tThreads, tCommentsLimit)
       THEN tPc' = "comments" /\ tI' = 1 /\ tPass' = 2
       ELSE tPc' = "formatted" /\ UNCHANGED <<tI, tPass>>
    /\ UNCHANGED <<tThreads, tCommentsLimit, tRuns>>
    /\ UNCHANGED notThreadsWithComments

ThreadsWithCommentsNext ==
    \/ FetchThreadsLoopEnds
    \/ FetchThreadsRaises
    \/ CommentsForNextThread
    \/ CommentsForThreadsReturns
    \/ AfterFetchThreads

\* The part at rest, in the specifications of the other parts.
MainIdle ==
    /\ mPc = "idle" /\ mIdx = 0 /\ mStep = 0
    /\ mSaved = {} /\ mStarted = {} /\ mExit = NoExit

PageIdle ==
    /\ pKind = "idle" /\ pLimit = NoLimit /\ pUseGemini = FALSE /\ pHasKey = FALSE
    /\ pUp = <<>> /\ pTotal = 0 /\ pPc = "idle" /\ pAll = <<>> /\ pBatch = <<>>
    /\ pCursor = <<>> /\ pTotalFetched = 0 /\ pHasMore = FALSE
    /\ pRequests = 0 /\ pSleeps = 0 /\ pEnrichCalls = 0
    /\ pEnrichFailed = FALSE /\ pFailedAt = 0 /\ pResult = <<>>

CommentsIdle ==
    /\ cLimit = NoLimit /\ cFetchAllReplies = FALSE /\ cPc = "idle"
    /\ cParsed = <<>> /\ cCursor = "" /\ cTotal = 0 /\ cRequests = 0
    /\ cSleeps = 0 /\ cExpansions = 0 /\ cResult = EmptyCommentsResult
    /\ cFailedAt = 0

ExpandIdle ==
    /\ eKind = "idle" /\ eReplies = <<>> /\ eHasMore = FALSE
    /\ eCursor = NullCursor /\ eRepliesCount = 0 /\ eInitial = <<>>
    /\ ePc = "idle" /\ eAll = <<>> /\ eMore = FALSE /\ eCur = ""
    /\ eAttempts = 0 /\ eRequests = 0 /\ eSleeps = 0 /\ eFailed = FALSE
    /\ eRun = 0
    /\ eFirst = [replies |-> <<>>, requests |-> 0, failed |-> FALSE]
    /\ eStored = [hasMoreReplies |-> FALSE, repliesEndCursor |-> NullCursor]
    /\ eExcluded = <<>> /\ eFirstCursor = NoCursorSent /\ eEmptyAt = 0

EnrichIdle ==
    /\ gReviews = <<>> /\ gBatchSize = 0 /\ gHasKey = FALSE
    /\ gEnhanced = <<>> /\ gPc = "idle" /\ gI = 0 /\ gCalls = 0
    /\ gResults = <<>>
    /\ gAt = 0
    /\ gFailure = <<>>
    /\ gSentiments = <<>>
    /\ gSentAt = 0

MakersIdle ==
    /\ kLaunchesData = NoData /\ kThreadsData = NoData /\ kMakers = <<>>
    /\ kPc = "idle" /\ kResult = <<>>

LoadIdle ==
    /\ lStarted = 0
    /\ lPc = [t \in TaskNames |-> "idle"]
    /\ lRequests = [t \in TaskNames |-> 0]

LaunchCommentsIdle ==
    /\ lcLaunches = 0
    /\ lcLimit = NoLimit
    /\ lcI = 0
    /\ lcPc = "idle"
    /\ lcFirstBatch = TRUE
    /\ lcParsed = <<>>
    /\ lcTotal = 0
    /\ lcRequests = 0
    /\ lcSleeps = 0
    /\ lcFailedAt = 0
    /\ lcBefore = <<>>
    /\ lcRaised = FALSE
    /\ lcCalls = 0
    /\ lcComments = <<>>
    /\ lcExpandFailedAt = 0
    /\ lcPostId = NullPostId
    /\ lcSent = <<>>

FormatIdle ==
    /\ nEdges = <<>> /\ nPc = "idle" /\ nParsed = <<>> /\ nFormatted = <<>>

ThreadsWithCommentsIdle ==
    /\ tThreads = <<>> /\ tCommentsLimit = NoLimit /\ tPc = "idle"
    /\ tI = 0 /\ tPass = 0 /\ tRuns = <<>>

(***************************************************************************)
(* Specifications                                                          *)
(***************************************************************************)

InitMain ==
    /\ MainStart
    /\ PageIdle /\ CommentsIdle /\ ExpandIdle /\ EnrichIdle
    /\ ThreadsWithCommentsIdle
    /\ FormatIdle /\ MakersIdle /\ LoadIdle /\ LaunchCommentsIdle

SpecMain == InitMain /\ [][MainNext]_vars

InitPage ==
    /\ PageStart
    /\ MainIdle /\ CommentsIdle /\ ExpandIdle /\ EnrichIdle
    /\ ThreadsWithCommentsIdle
    /\ FormatIdle /\ MakersIdle /\ LoadIdle /\ LaunchCommentsIdle

SpecPage == InitPage /\ [][PageNext]_vars

InitComments ==
    /\ CommentsStart
    /\ MainIdle /\ PageIdle /\ ExpandIdle /\ EnrichIdle
    /\ ThreadsWithCommentsIdle
    /\ FormatIdle /\ MakersIdle /\ LoadIdle /\ LaunchCommentsIdle

SpecComments == InitComments /\ [][CommentsNext]_vars

InitExpand ==
    /\ ExpandStart
    /\ MainIdle /\ PageIdle /\ CommentsIdle /\ EnrichIdle
    /\ ThreadsWithCommentsIdle
    /\ FormatIdle /\ MakersIdle /\ LoadIdle /\ LaunchCommentsIdle

SpecExpand == InitExpand /\ [][ExpandNext]_vars

InitEnrich ==
    /\ EnrichStart
    /\ MainIdle /\ PageIdle /\ CommentsIdle /\ ExpandIdle
    /\ ThreadsWithCommentsIdle
    /\ FormatIdle /\ MakersIdle /\ LoadIdle /\ LaunchCommentsIdle

SpecEnrich == InitEnrich /\ [][EnrichNext]_vars

InitMakers ==
    /\ MakersStart
    /\ MainIdle /\ PageIdle /\ CommentsIdle /\ ExpandIdle
    /\ ThreadsWithCommentsIdle
    /\ FormatIdle /\ EnrichIdle /\ LoadIdle /\ LaunchCommentsIdle

SpecMakers == InitMakers /\ [][MakersNext]_vars

InitLoad ==
    /\ LoadStart
    /\ MainIdle /\ PageIdle /\ CommentsIdle /\ ExpandIdle
    /\ ThreadsWithCommentsIdle
    /\ FormatIdle /\ EnrichIdle /\ MakersIdle /\ LaunchCommentsIdle

SpecLoad == InitLoad /\ [][LoadNext]_vars

InitLaunchComments ==
    /\ LaunchCommentsStart
    /\ MainIdle /\ PageIdle /\ CommentsIdle /\ ExpandIdle
    /\ ThreadsWithCommentsIdle
    /\ FormatIdle /\ EnrichIdle /\ MakersIdle /\ LoadIdle

SpecLaunchComments == InitLaunchComments /\ [][LaunchCommentsNext]_vars

\* One call of a page loop: fetchReviews, fetchThreads or fetchLaunches, or
\* the comment loops of fetchLaunchesWithComments.
InitLoops ==
    /\ \/ PageStart /\ LaunchCommentsIdle
       \/ LaunchCommentsStart /\ PageIdle
    /\ MainIdle /\ CommentsIdle /\ ExpandIdle
    /\ EnrichIdle /\ MakersIdle /\ LoadIdle /\ FormatIdle
    /\ ThreadsWithCommentsIdle

LoopsNext == PageNext \/ LaunchCommentsNext

SpecLoops == InitLoops /\ [][LoopsNext]_vars

\* One call of fetchReviews, fetchThreads or fetchLaunches, or one call of
\* an extractor of the enrichment.
InitPageOrEnrich ==
    /\ \/ PageStart /\ EnrichIdle
       \/ EnrichStart /\ PageIdle
    /\ MainIdle /\ CommentsIdle /\ ExpandIdle
    /\ MakersIdle /\ LoadIdle /\ LaunchCommentsIdle /\ FormatIdle
    /\ ThreadsWithCommentsIdle

PageOrEnrichNext == PageNext \/ EnrichNext

SpecPageOrEnrich == InitPageOrEnrich /\ [][PageOrEnrichNext]_vars

InitFormat ==
    /\ FormatStart
    /\ MainIdle /\ PageIdle /\ CommentsIdle /\ ExpandIdle
    /\ ThreadsWithCommentsIdle
    /\ EnrichIdle /\ MakersIdle /\ LoadIdle /\ LaunchCommentsIdle

SpecFormat == InitFormat /\ [][FormatNext]_vars

InitThreadsWithComments ==
    /\ ThreadsWithCommentsStart
    /\ MainIdle /\ PageIdle /\ CommentsIdle /\ ExpandIdle /\ EnrichIdle
    /\ MakersIdle /\ LoadIdle /\ LaunchCommentsIdle /\ FormatIdle

SpecThreadsWithComments ==
    InitThreadsWithComments /\ [][ThreadsWithCommentsNext]_vars

\* fetchComments as the event loop runs it: a step that can be taken is
\* taken (an awaited request is answered or fails, a delay ends).
SpecCommentsFair ==
    InitComments /\ [][CommentsNext]_vars /\ WF_vars(CommentsNext)

(***************************************************************************)
(* Claims                                                                  *)
(***************************************************************************)

\* C1 (as claimed): in main, when the pipeline of one product raises, the
\* remaining products of the list are still processed: whenever main has
\* ended, every product of productSlugs was started.
C1_RemainingProductsProcessed ==
    mPc \in {"completed", "exited"} =>
        \A i \in 1..Len(productSlugs) : productSlugs[i] \in mStarted

\* The reviews fetched so far when an extractor call is made: the batches
\* accumulated by the earlier iterations and the batch being processed.
FetchedSoFar == pAll \o pBatch

\* C2 (as claimed): when an enrichment call fails inside fetchReviews after
\* one or more pages were fetched, the reviews fetched so far still reach the
\* caller: fetchReviews returns and its result holds them.
C2_FetchedReviewsReachCaller ==
    pEnrichFailed =>
        /\ pPc = "returned"
        /\ Range(ApplyLimit(FetchedSoFar, pLimit)) \subseteq Range(pResult)

\* C2 (amended): when an enrichment call fails inside fetchReviews, the error
\* propagates out of fetchReviews: the call raises and returns nothing, so the
\* reviews fetched so far do not reach the caller.
C2_EnrichFailureRaises ==
    pEnrichFailed => (pPc = "raised" /\ pResult = <<>>)

\* An extractor call failed in a later iteration, with the reviews of an
\* earlier page already accumulated.
C2_Witness ==
    /\ pEnrichFailed
    /\ pPc = "raised"
    /\ Len(pAll) > 0
    /\ Len(pBatch) > 0

\* The last page an unlimited crawl of the connection requests: the first
\* page that is empty or reports hasNextPage = false.
ConnectionEnd(pages) ==
    CHOOSE j \in 1..Len(pages) :
        /\ pages[j].n = 0 \/ ~pages[j].more
        /\ \A i \in 1..(j - 1) : pages[i].n > 0 /\ pages[i].more

\* The number of items a crawl without limit holds after j page requests.
Accumulated(j) ==
    IF pKind = "reviews" THEN Min(ReviewsPageSize * j, pTotal)
                         ELSE SumSizes(pUp, Min(j, ConnectionEnd(pUp)))

\* The number of items available upstream to a crawl without limit.
Available ==
    IF pKind = "reviews" THEN pTotal ELSE SumSizes(pUp, ConnectionEnd(pUp))

\* The page on which the accumulated count first reaches l.
ReachPage(l) ==
    CHOOSE j \in 1..(MaxPages + MaxReviews) :
        /\ Accumulated(j) >= l
        /\ \A i \in 1..(j - 1) : Accumulated(i) < l

FirstItems(n) == [i \in 1..n |-> i]

\* C3: for fetchReviews, fetchThreads and fetchLaunches called with limit = L
\* while upstream holds more than L items, the returned sequence is exactly
\* the first L items in fetch order, and no page is requested after the page
\* on which the accumulated count first reaches L.
C3_LimitTruncation ==
    (pKind \in PageKinds /\ pLimit # NoLimit /\ Available > pLimit) =>
        /\ pRequests <= ReachPage(pLimit)
        /\ pPc = "returned" =>
             /\ pResult = FirstItems(pLimit)
             /\ pRequests = ReachPage(pLimit)

\* A call returned after the limit was reached on a second or later page, in
\* the middle of that page.
C3_Witness ==
    /\ pKind \in PageKinds /\ pLimit # NoLimit /\ Available > pLimit
    /\ pPc = "returned"
    /\ pRequests >= 2
    /\ Accumulated(pRequests) > pLimit
    /\ Len(pResult) = pLimit

\* The first page on which upstream reports hasNextPage = false.
FirstLastPage(pages) ==
    CHOOSE j \in 1..Len(pages) :
        ~pages[j].more /\ \A i \in 1..(j - 1) : pages[i].more

LimitAbsentOrLarger(total) == pLimit = NoLimit \/ pLimit > total

\* C5 (as claimed): for fetchThreads and fetchLaunches against an upstream
\* that reports hasNextPage = false for the first time on its k-th page, with
\* limit absent or larger than the total, exactly k page requests are issued
\* and the result is the concatenation of the items of all k pages.
C5_ExactlyKRequests ==
    (/\ pKind \in {"threads", "launches"}
     /\ pPc = "returned"
     /\ LimitAbsentOrLarger(SumSizes(pUp, FirstLastPage(pUp)))) =>
        /\ pRequests = FirstLastPage(pUp)
        /\ pResult = FirstItems(SumSizes(pUp, FirstLastPage(pUp)))

\* C5 (amended): the same, provided each of the first k-1 pages holds at
\* least one item (an empty page ends the loop at once, whatever its
\* hasNextPage).
C5_ExactlyKRequestsNonEmptyPages ==
    (/\ pKind \in {"threads", "launches"}
     /\ pPc = "returned"
     /\ LimitAbsentOrLarger(SumSizes(pUp, FirstLastPage(pUp)))
     /\ \A j \in 1..(FirstLastPage(pUp) - 1) : pUp[j].n > 0) =>
        /\ pRequests = FirstLastPage(pUp)
        /\ pResult = FirstItems(SumSizes(pUp, FirstLastPage(pUp)))

\* A crawl of three non-empty pages returned, the limit being larger than the
\* total.
C5_Witness ==
    /\ pKind \in {"threads", "launches"}
    /\ pPc = "returned"
    /\ pLimit # NoLimit
    /\ pLimit > SumSizes(pUp, FirstLastPage(pUp))
    /\ FirstLastPage(pUp) >= 3
    /\ \A j \in 1..FirstLastPage(pUp) : pUp[j].n > 0
    /\ pRequests = FirstLastPage(pUp)

\* C4 (as claimed): for threadComments.fetchComments called with limit = L,
\* once the accumulated count reaches L the result is truncated to exactly L
\* comments: the parsedComments of a result never holds more than L entries.
C4_NeverMoreThanLimit ==
    (cPc = "returned" /\ cLimit # NoLimit) =>
        Len(cResult.parsedComments) <= cLimit

NoDuplicates(s) == \A i, j \in DOMAIN s : i # j => s[i] # s[j]

\* C6 (as claimed, here for initial replies that hold no duplicate): after
\* the reply expansion of a comment completes, having fetched at least one
\* reply page without a failed request, the reply sequence of the comment
\* contains no two replies with the same identifier, whatever the reply pages
\* hold (a page may repeat an identifier within itself).
C6_NoDuplicateReplies ==
    (/\ ePc = "done" /\ eRun = 1
     /\ ~eFailed /\ eRequests >= 1
     /\ NoDuplicates(eInitial)) =>
        NoDuplicates(eReplies)

\* C7 (as claimed): running the expander a second time on a comment whose
\* first expansion completed leaves the reply sequence with the same
\* identifiers and the same length as after the first run, and with no
\* duplicate identifiers.
C7_SecondRunSameReplies ==
    (/\ ePc = "done" /\ eRun = 2
     /\ ~eFirst.failed /\ eFirst.requests >= 1
     /\ NoDuplicates(eInitial)) =>
        /\ Range(eReplies) = Range(eFirst.replies)
        /\ Len(eReplies) = Len(eFirst.replies)
        /\ NoDuplicates(eReplies)

\* C8 (as claimed): for every review the enrichment returns, and for any page
\* of reviews (identifiers may be empty or repeated), rating != null implies
\* sentiment == null, and sentiment != null implies rating == null.
C8_RatingExcludesSentiment ==
    gPc = "returned" =>
        \A k \in DOMAIN gEnhanced :
            /\ gEnhanced[k].rating # Null => gEnhanced[k].sentiment = Null
            /\ gEnhanced[k].sentiment # Null => gEnhanced[k].rating = Null

ActivityFields == {"launchComments", "forumComments", "forumThreadsAuthored"}

\* C9: for every maker record produced by _parseMakers, launchComments,
\* forumComments and forumThreadsAuthored are each a sequence (possibly
\* empty), never undefined, also when launchesData or threadsData is null or
\* empty and when the maker's identifier occurs nowhere in them.
C9_ActivitySequencesPresent ==
    kPc = "returned" =>
        \A m \in DOMAIN kResult : \A f \in ActivityFields :
            /\ kResult[m][f] # Undefined
            /\ DOMAIN kResult[m][f] = 1..Len(kResult[m][f])

\* _parseMakers returned a maker whose identifier occurs nowhere in the
\* data, while launchesData was null and threadsData held a thread.
C9_Witness ==
    /\ kPc = "returned"
    /\ ~kLaunchesData.present
    /\ Len(kThreadsData.items) > 0
    /\ \E m \in DOMAIN kResult :
          /\ \A f \in ActivityFields : kResult[m][f] = <<>>
          /\ kResult[m].id # ""
          /\ \A t \in DOMAIN kThreadsData.items :
                kThreadsData.items[t].author # kResult[m].id

\* The places of the comments and first-level replies of a sequence of
\* launches or threads, and the author identifier at a place.
CommentPlaces(items) ==
    {p \in (DOMAIN items) \X (1..MaxRecords) \X (0..MaxRecords) :
        /\ p[2] \in DOMAIN items[p[1]].comments
        /\ p[3] \in {0} \cup DOMAIN items[p[1]].comments[p[2]].replies}

CommentAuthorAt(items, p) ==
    IF p[3] = 0 THEN items[p[1]].comments[p[2]].author
                ELSE items[p[1]].comments[p[2]].replies[p[3]]

ThreadPlaces(items) == {<<t, 0, 0>> : t \in DOMAIN items}

\* Encounter order: launch or thread order, then comment order, the comment
\* before its replies, then reply order.
EncounteredBefore(p, q) ==
    \/ p[1] < q[1]
    \/ p[1] = q[1] /\ p[2] < q[2]
    \/ p[1] = q[1] /\ p[2] = q[2] /\ p[3] < q[3]

\* s holds exactly one entry per place of the set, in encounter order.
IsExactlyInOrder(s, places) ==
    /\ Range(s) = places
    /\ Len(s) = Cardinality(places)
    /\ \A i, j \in DOMAIN s : i < j => EncounteredBefore(s[i], s[j])

\* C10 (as claimed): for every maker M output by _parseMakers,
\* M.launchComments is exactly, in encounter order, one entry per launch
\* comment or first-level reply whose author identifier equals M.id,
\* M.forumComments the same over the thread comments and their replies, and
\* M.forumThreadsAuthored, in thread order, one entry per thread whose author
\* identifier equals M.id.
C10_ActivityOfEqualAuthorId ==
    kPc = "returned" =>
        \A m \in DOMAIN kResult :
            LET id == kResult[m].id
                ls == kLaunchesData.items
                ts == kThreadsData.items
            IN  /\ IsExactlyInOrder(kResult[m].launchComments,
                     {p \in CommentPlaces(ls) : CommentAuthorAt(ls, p) = id})
                /\ IsExactlyInOrder(kResult[m].forumComments,
                     {p \in CommentPlaces(ts) : CommentAuthorAt(ts, p) = id})
                /\ IsExactlyInOrder(kResult[m].forumThreadsAuthored,
                     {p \in ThreadPlaces(ts) : ts[p[1]].author = id})

\* C10 (amended): the same, over the records whose author identifier is
\* non-empty and equals M.id: a record without author identifier (stored as
\* the empty string) is never correlated, also with a maker whose identifier
\* is empty.
C10_ActivityOfEqualNonEmptyAuthorId ==
    kPc = "returned" =>
        \A m \in DOMAIN kResult :
            LET id == kResult[m].id
                ls == kLaunchesData.items
                ts == kThreadsData.items
            IN  /\ IsExactlyInOrder(kResult[m].launchComments,
                     {p \in CommentPlaces(ls) :
                        id # "" /\ CommentAuthorAt(ls, p) = id})
                /\ IsExactlyInOrder(kResult[m].forumComments,
                     {p \in CommentPlaces(ts) :
                        id # "" /\ CommentAuthorAt(ts, p) = id})
                /\ IsExactlyInOrder(kResult[m].forumThreadsAuthored,
                     {p \in ThreadPlaces(ts) :
                        id # "" /\ ts[p[1]].author = id})

\* _parseMakers returned a maker with two launch entries, a comment and a
\* reply, next to a record of another author.
C10_Witness ==
    /\ kPc = "returned"
    /\ \E m \in DOMAIN kResult :
          /\ Len(kResult[m].launchComments) >= 2
          /\ \E p \in CommentPlaces(kLaunchesData.items) :
                CommentAuthorAt(kLaunchesData.items, p)
                    \notin {"", kResult[m].id}

\* The calls that have a network request in flight.
InFlight == {t \in TaskNames : lPc[t] = "request"}

\* C11 (as claimed): in the running program as loaded, at no time are two
\* network requests in flight at once.
C11_OneRequestInFlight == Cardinality(InFlight) <= 1

\* The waits of a loop alternate with its page requests: as many waits as
\* requests when the next request is about to be issued, one less at any
\* other place of the loop and after it.
WaitsBetweenRequests(pc, requests, sleeps) ==
    IF pc = "fetch" THEN sleeps = requests
    ELSE IF requests = 0 THEN sleeps = 0
    ELSE sleeps = requests - 1

\* C12: in the page loops of fetchReviews, fetchThreads, fetchLaunches and
\* fetchLaunchComments a wait of requestDelay occurs between any two
\* consecutive page requests of the loop, and no wait occurs after the last
\* page request of the loop.
C12_WaitBetweenPageRequests ==
    /\ WaitsBetweenRequests(pPc, pRequests, pSleeps)
    /\ WaitsBetweenRequests(lcPc, lcRequests, lcSleeps)

\* A loop of fetchLaunchComments that issued two page requests has ended.
C12_Witness ==
    /\ lcPc = "save"
    /\ lcRequests = 2
    /\ lcSleeps = 1

\* C13 (as claimed): between every two consecutive network requests of one
\* crawl a delay is inserted; here, between the successive reply-page
\* requests of one comment: every request but the first follows a wait.
C13_DelayBetweenReplyRequests == eRequests <= eSleeps + 1

\* The order of the steps that the claim names.
ClaimedOrder == <<"reviews", "threads", "launches", "details", "makers">>

PlaceOf(type) == CHOOSE k \in DOMAIN ClaimedOrder : ClaimedOrder[k] = type

\* The step of that type of the i-th product has returned (its result is
\* saved right after).
StepReturned(i, type) ==
    \E r \in mSaved : r.product = productSlugs[i] /\ r.type = type

\* The step has been started: it has returned, or it is the awaited call
\* main is at (or was at when it raised).
StepStarted(i, type) ==
    \/ StepReturned(i, type)
    \/ mPc \in {"loop", "exited"} /\ mIdx = i /\ mainSteps[mStep] = type

\* C14: in main the steps of a product run in the order reviews, threads,
\* launches, details, makers, each starting only after the previous one
\* returned (so makers after threads and launches), and no step of a
\* product starts before every step of the product before it has finished.
C14_StepsInFixedOrder ==
    \A i \in DOMAIN productSlugs : \A type \in Range(ClaimedOrder) :
        StepStarted(i, type) =>
            /\ \A before \in Range(ClaimedOrder) :
                   PlaceOf(before) < PlaceOf(type) => StepReturned(i, before)
            /\ \A j \in 1..(i - 1) : \A any \in Range(ClaimedOrder) :
                   StepReturned(j, any)

\* main awaits the maker fetch of the second product.
C14_Witness ==
    /\ mPc = "loop"
    /\ mIdx = 2
    /\ mainSteps[mStep] = "makers"

\* C15: without a credential extractUsedToBuildField and extractSentiment
\* raise before any request is sent to the enrichment service, and
\* fetchReviews with enrichment enabled and no credential raises before any
\* network request at all.
C15_NoCredentialNoRequest ==
    /\ (gPc # "idle" /\ ~gHasKey) =>
            /\ gCalls = 0
            /\ gPc \in {"usedToBuild", "sentiment", "raised"}
    /\ (pPc # "idle" /\ pKind = "reviews" /\ pUseGemini /\ ~pHasKey) =>
            /\ pRequests = 0
            /\ pEnrichCalls = 0
            /\ pPc \in {"start", "raised"}

\* An extractor called without a credential has raised.
C15_Witness ==
    /\ gPc = "raised"
    /\ ~gHasKey
    /\ gCalls = 0

\* C16: when the extractor call for a batch fails, extractUsedToBuildField
\* and extractSentiment raise at once: no extractor call is made after the
\* failed one, and the fields written for the batches before it stay as
\* written.
C16_FailedBatchRaisesAtOnce ==
    gFailure # <<>> =>
        /\ gPc = "raised"
        /\ gCalls = gFailure[1].calls
        /\ gEnhanced = gFailure[1].enhanced

\* The call for the second of three batches of extractUsedToBuildField has
\* failed after the first batch wrote a field.
C16_Witness ==
    /\ gFailure # <<>>
    /\ gPc = "raised"
    /\ Len(gReviews) = 3 /\ gBatchSize = 1 /\ gI = 1
    /\ gCalls = 2
    /\ gEnhanced[1].usedToBuild = "an app"

\* The results, of the last response handled, whose index field named the
\* k-th record of the batch (the field is kept less one).
ResultsFor(k) == {item \in Range(gResults) : item.index = k - 1}

\* C17 (as claimed): in extractUsedToBuildField a result whose index field is
\* k is applied to the k-th record of the batch it was returned for, whatever
\* the order and number of the results, and a record for which no result
\* with its index was returned keeps a blank usedToBuild.
C17_ResultAppliedByIndex ==
    \A k \in 1..Len(BatchAt(gReviews, gAt, gBatchSize)) :
        /\ \A item \in ResultsFor(k) :
               item.usedToBuild # "" =>
                   gEnhanced[gAt + k].usedToBuild = item.usedToBuild
        /\ ResultsFor(k) = {} => gEnhanced[gAt + k].usedToBuild = ""

\* C18 (as claimed): a successful response in which an optional nested field
\* is absent or null (a comment without a user, an edge without a node)
\* never makes a normalizer or formatter throw; here parseComments and
\* formatComments.
C18_FormatterNeverThrows == nPc # "thrown"

\* C19: when a page request throws inside fetchReviews, fetchThreads or
\* fetchLaunches, the loop stops with no further page request, the exception
\* reaches the caller, and no partial result is returned.
C19_FailedPageRequestRaises ==
    pFailedAt # 0 =>
        /\ pPc = "raised"
        /\ pRequests = pFailedAt
        /\ pResult = <<>>

\* The second page request has thrown after the first page was accumulated.
C19_Witness ==
    /\ pFailedAt = 2
    /\ pPc = "raised"
    /\ Len(pAll) > 0

\* C20: in fetchLaunchComments a transport failure ends the launch's comment
\* pagination without raising, and the result holds exactly the comments
\* accumulated before the failing request: none when the first request
\* fails, those of the earlier pages when a later one fails; and in
\* fetchLaunchesWithComments the comment fetches of the other launches still
\* run.
C20_TransportFailureKeepsComments ==
    /\ lcFailedAt # 0 =>
            /\ lcPc \in {"save", "between", "call", "done"}
            /\ lcRequests = lcFailedAt
            /\ lcFailedAt = 1 => lcBefore = <<>>
            /\ lcPc = "save" => lcParsed = lcBefore
            /\ (lcPc # "save" /\ ~lcRaised) =>
                   lcComments[Len(lcComments)] = lcBefore
    /\ lcPc = "done" =>
            /\ lcCalls = lcLaunches
            /\ Len(lcComments) = lcLaunches

\* The second page request of the first of two launches failed; the launch
\* has the comments of its first page and the next launch is about to be
\* fetched.
C20_Witness ==
    /\ lcLaunches = 2
    /\ lcPc = "between"
    /\ lcFailedAt = 2
    /\ lcBefore # <<>>
    /\ lcComments = <<lcBefore>>

\* C21: every entry of a maker's launchComments and forumComments carries an
\* isReply field, true for an entry built from a reply and false for an entry
\* built from a top-level comment.
C21_EntriesCarryIsReply ==
    kPc = "returned" =>
        \A m \in DOMAIN kResult :
            \A field \in {"launchComments", "forumComments"} :
                \A e \in DOMAIN kResult[m][field] :
                    IsReplyOfEntry(field, kResult[m][field][e])
                        = IF kResult[m][field][e][3] > 0 THEN "true"
                                                         ELSE "false"

\* C22: when a reply-page request fails during the expansion of a comment,
\* the comment is left with hasMoreReplies = true, in the launch path and in
\* the thread path.
C22_FailedExpansionLeavesHasMore ==
    (ePc = "done" /\ eFailed) => eHasMore

\* C23: when the n-th reply-page request (n >= 2) of an expansion fails, the
\* reply sequence of the comment afterwards holds the initial replies and
\* every new reply accumulated from the pages 1..n-1 of that expansion.
C23_FailureKeepsAccumulatedReplies ==
    (ePc = "done" /\ eFailed /\ eRequests >= 2) => eReplies = eAll

C25_AtMostFiveReplyRequests ==
    /\ eRequests <= MAX_FETCH_ATTEMPTS
    /\ eRequests = MAX_FETCH_ATTEMPTS => ePc \in {"sleep", "loop", "done"}
    /\ (ePc = "done" /\ eRequests = MAX_FETCH_ATTEMPTS /\ ~eFailed) =>
           eReplies = eAll

\* Five requests were made, the fifth page still reported a next page, and
\* the expansion has ended.
C25_Witness ==
    /\ eKind = "launch"
    /\ ePc = "done"
    /\ eRequests = MAX_FETCH_ATTEMPTS
    /\ eMore
    /\ ~eFailed
    /\ Len(eReplies) > Len(eInitial)

\* The identifiers of a sequence of replies are pairwise different.
DistinctIds(replies) ==
    \A i, j \in DOMAIN replies : replies[i] = replies[j] => i = j

\* What the launch expander leaves when no request failed and the last page
\* handled reported no next page, apart from the identifiers of the fetched
\* replies: the initial replies in front, hasMoreReplies false, and the first
\* request made with the stored cursor.
C26_ExpansionResultApartFromIdentifiers ==
    (/\ eKind = "launch" /\ eRun = 1 /\ ePc = "done"
     /\ eStored.hasMoreReplies /\ eStored.repliesEndCursor # NullCursor
     /\ ~eFailed /\ ~eMore) =>
        /\ Len(eReplies) >= Len(eInitial)
        /\ SubSeq(eReplies, 1, Len(eInitial)) = eInitial
        /\ ~eHasMore
        /\ eFirstCursor = eStored.repliesEndCursor

\* C26: for a launch comment with hasMoreReplies = true and a stored cursor,
\* when no request fails and upstream reports hasNextPage = false within the
\* attempt bound, the reply sequence after _expandReplies is the initial
\* replies followed by the fetched replies whose identifier was not already
\* held (so no fetched reply is kept twice, and none that the initial replies
\* hold), hasMoreReplies is false, and the first request was made with the
\* stored cursor.
C26_ExpansionResult ==
    (/\ eKind = "launch" /\ eRun = 1 /\ ePc = "done"
     /\ eStored.hasMoreReplies /\ eStored.repliesEndCursor # NullCursor
     /\ ~eFailed /\ ~eMore) =>
        /\ C26_ExpansionResultApartFromIdentifiers
        /\ LET fetched == SubSeq(eReplies, Len(eInitial) + 1, Len(eReplies))
           IN  /\ DistinctIds(fetched)
               /\ Range(fetched) \cap Range(eInitial) = {}

\* C27: the launch reply expander issues at least one reply-page request for
\* the comment whenever comment.hasMoreReplies is true or comment.repliesCount
\* is greater than the number of replies held, and none when neither holds.
C27_ExpanderActsWhenRepliesMissing ==
    (eKind = "launch" /\ eRun = 1 /\ ePc = "done") =>
        IF eStored.hasMoreReplies \/ eRepliesCount > Len(eInitial)
        THEN eRequests >= 1
        ELSE eRequests = 0

\* C28 (as claimed): in one expansion of a comment, the first reply-page
\* request carries
\* as exclusion list exactly the identifiers of the replies already held for
\* that comment, and every later request of that expansion carries an empty
\* exclusion list, in the launch path and in the thread path.
C28_ExclusionListOfFirstRequestOnly ==
    (eRun = 1 /\ Len(eExcluded) >= 1) =>
        /\ eExcluded[1] = eInitial
        /\ \A n \in 2..Len(eExcluded) : eExcluded[n] = <<>>

\* C28 (amended): in the launch path the first request of an expansion
\* carries the identifiers of the replies held and the later ones an empty
\* list; in the thread path every request carries an empty list.
C28_ExclusionListByPath ==
    eRun = 1 =>
        \A n \in DOMAIN eExcluded :
            eExcluded[n] = IF eKind = "launch" /\ n = 1 THEN eInitial ELSE <<>>

\* A launch comment holding replies, in its second reply-page request.
C28_Witness ==
    /\ eKind = "launch" /\ eRun = 1
    /\ eInitial # <<>>
    /\ Len(eExcluded) >= 2

\* C29: in both reply expanders, after a reply page that yields zero new
\* edges no further reply-page request is issued for that comment, even when
\* that page reports hasNextPage = true with a cursor.
C29_EmptyReplyPageEndsExpansion ==
    eEmptyAt # 0 => eRequests = eEmptyAt

\* C30: in fetchLaunchComments a page that returns zero comments ends the
\* pagination of that launch, whatever hasNextPage it reports: as long as no
\* page of the call has returned a comment, at most one page was requested.
C30_EmptyCommentPageEndsPagination ==
    (lcRequests >= 1 /\ lcTotal = 0) => lcRequests = 1

\* C31: in fetchLaunchComments the first request of a launch, and only the
\* first, is the first-stage request (PostPageComments); every later page
\* request (Comments) carries the post identifier that the first response
\* returned, never a null one.
C31_LaterRequestsCarryPostId ==
    \A n \in DOMAIN lcSent :
        IF n = 1
        THEN lcSent[n].operationName = "PostPageComments"
        ELSE /\ lcSent[n].operationName = "Comments"
             /\ lcSent[n].commentsSubjectId = lcPostId
             /\ lcSent[n].commentsSubjectId \in PostIds

\* The second page request of a launch whose first response held p2.
C31_Witness ==
    /\ Len(lcSent) = 2
    /\ lcPostId = "p2"
    /\ lcSent[2].operationName = "Comments"

\* The base64 text of the decimal text of a multiple of 10, as Node prints it.
EncodedTotals ==
    [n \in {10, 20, 30} |->
        CASE n = 10 -> <<"M", "T", "A", "=">>
          [] n = 20 -> <<"M", "j", "A", "=">>
          [] n = 30 -> <<"M", "z", "A", "=">>]

\* C32: in fetchReviews the first page request carries a null cursor and the
\* n-th request (n >= 2) carries the encoding of the running total, which is
\* 10*(n-1); a further request is issued only after a page of exactly 10
\* reviews and with the limit not reached.
C32_ReviewsCursorEncodesTotal ==
    (pKind = "reviews" /\ pPc \in {"fetch", "sleep"}) =>
        /\ pTotalFetched = ReviewsPageSize * pRequests
        /\ Len(pAll) = pTotalFetched
        /\ pRequests >= 1 => (pLimit = NoLimit \/ Len(pAll) < pLimit)
        /\ pCursor = IF pRequests = 0 THEN <<>>
                     ELSE EncodedTotals[ReviewsPageSize * pRequests]

\* The third request of a call is about to be issued.
C32_Witness ==
    /\ pKind = "reviews" /\ pPc = "fetch"
    /\ pRequests = 2
    /\ pCursor = <<"M", "j", "A", "=">>

\* C33: in one call of fetchAndFormatThreadsWithComments the comment
\* pagination of each fetched thread that has a slug is run exactly once.
C33_CommentsOfAThreadFetchedOnce ==
    /\ \A i \in DOMAIN tRuns : tRuns[i] <= 1
    /\ tPc = "formatted" =>
           \A i \in DOMAIN tRuns : tThreads[i] => tRuns[i] = 1

\* The places, in the full collection, of the reviews without rating.
PlacesNeedingSentiment ==
    SelectSeq([k \in DOMAIN gReviews |-> k],
              LAMBDA k : HasNoRating(gReviews[k]))

\* C34: in extractSentiment the sentiment returned for the j-th review of the
\* no-rating subset is written to that very record of the full collection,
\* for any collection (identifiers may be empty or repeated), and a review
\* that has a rating is never written.
C34_SentimentWrittenToItsReview ==
    /\ \A j \in DOMAIN gSentiments :
           gSentiments[j] # Null =>
               gEnhanced[PlacesNeedingSentiment[gSentAt + j]].sentiment
                   = gSentiments[j]
    /\ \A k \in DOMAIN gReviews :
           ~HasNoRating(gReviews[k]) => gEnhanced[k].sentiment = Null

\* No comment added by a step has the identifier of a comment collected from
\* an earlier page.
AddsOnlyNewIdentifiers ==
    \A i \in DOMAIN cParsed' :
        i > Len(cParsed) => cParsed'[i].id \notin IdsOf(cParsed)

\* C35: in threadComments.fetchComments a comment whose identifier was
\* already collected from an earlier page of the thread is never added again,
\* and commentCount equals the length of parsedComments on every return.
C35_NoIdentifierFromTwoPages ==
    /\ [][AddsOnlyNewIdentifiers]_vars
    /\ [](/\ cTotal = Len(cParsed)
          /\ cPc = "returned" =>
                 cResult.commentCount = Len(cResult.parsedComments))

\* A result of three comments collected from two pages, of which the second
\* repeated a comment of the first.
C35_Witness ==
    /\ cPc = "returned"
    /\ cRequests = 2
    /\ cResult.commentCount = 3
    /\ IdsOf(cResult.parsedComments) = CommentIds

\* C36: threadComments.fetchComments terminates against an upstream with
\* finitely many comment identifiers, whatever hasNextPage and cursor the
\* pages report and also with limit = null: a page that brings no new
\* identifier ends the pagination, so at most one request more than there are
\* identifiers is made, and the call returns.
C36_CommentPaginationTerminates ==
    /\ [](cRequests <= Cardinality(CommentIds) + 1)
    /\ [](cPc = "sleep" => Len(cParsed) >= cRequests)
    /\ <>(cPc = "returned")

\* With no limit, every identifier was collected one page at a time and the
\* one further page, which brought nothing new, ended the pagination.
C36_Witness ==
    /\ cLimit = NoLimit
    /\ cRequests = Cardinality(CommentIds) + 1
    /\ Len(cParsed) = Cardinality(CommentIds)
    /\ cPc = "returned"

\* C37: in every result of fetchLaunchComments commentCount equals the
\* number of entries of parsedComments, also when the collection was cut to
\* the requested limit.
C37_CommentCountIsNumberOfEntries ==
    lcPc = "save" =>
        LaunchCommentsResult.commentCount =
            Len(LaunchCommentsResult.parsedComments)

\* The first run of _expandReplies has returned and no request of it failed.
LaunchExpandReturned ==
    eKind = "launch" /\ eRun = 1 /\ ePc = "done" /\ ~eFailed

\* The condition of the early return on the comment as it was passed.
LaunchExpandReturnedEarly ==
    ~eStored.hasMoreReplies /\ eRepliesCount <= Len(eInitial)

====
